---- MODULE Spec2Model ----
(***************************************************************************)
(* A model of tion_btle's Operator (src/tion_btle/operator.py) and of the  *)
(* parts of DeviceManager and Scenarist it calls.                          *)
(*                                                                         *)
(* The Operator runs on one asyncio event loop: a coroutine runs without   *)
(* interruption from one await to the next.  Every action below is one     *)
(* such segment of one task: it resumes the task from the await it is      *)
(* suspended on (pc[t]), runs the code up to the next await, and leaves    *)
(* the task suspended there.  Code segments are operators from a state     *)
(* record to a state record, so that they compose as the code does.        *)
(***************************************************************************)
EXTENDS Integers, Sequences, FiniteSets, TLC

VARIABLES
    registry,       \* DeviceManager's devices table: id -> row
    scenarios,      \* Scenarist's scenarios table: id -> row, or NoRow
    retries,        \* Operator._retries
    devices,        \* Operator._devices: id -> handle, or NoHandle
    status_cache,   \* Operator._status_cache: id -> DeviceStatus, or NoStatus
    hconn,          \* the handles whose connection_status is true
    devVer,         \* per physical device: the number of writes it has applied
    written,        \* history: devVer when a setter last returned True for the device
    now,            \* datetime.now(), in polling intervals
    pc,             \* per task: the await it is suspended on
    loc,            \* per task: its local variables
    ev              \* what the last segment completed (history, for the properties)

vars == <<registry, scenarios, retries, devices, status_cache, hconn, devVer, written, now, pc, loc, ev>>

---------------------------------------------------------------------------
(* Bounds of the model *)

\* Operator._retries is drawn from 1..MaxAttempts where load is checked for every n.
MaxAttempts == 3
\* The polling loop begins at most MaxNow cycles (now counts them).
MaxNow == 2
\* A physical device applies at most MaxWrites writes.
MaxWrites == 1

(* Program constants *)

\* retries: int = 3, the default of _load_device, and Operator._retries.
DefaultRetries == 3
\* speed < 0 or speed > 6
MinFanSpeed == 0
MaxFanSpeed == 6
\* temp < 10 or temp > 30
MinHeaterTemp == 10
MaxHeaterTemp == 30

---------------------------------------------------------------------------
(* Values *)

Dev == {"d1", "d2"}
\* poll and auto are Operator._polling_task and Operator._scenario_task; poll_old
\* and auto_old are the tasks those attributes referred to before the last
\* start_polling and run_scenarios replaced them.
Task == {"poll", "auto", "u1", "u2", "poll_old", "auto_old"}

NoDev == "-"
NoHandle == 0
NoStatus == [present |-> FALSE]
NoRow == [present |-> FALSE]

\* Handle objects.  A handle is live while the connected map, a task's local
\* variable or shutdown's list refers to it; there are never more live handles
\* than this.
Handle == 1..(2 * Cardinality(Dev) + Cardinality(Task))

\* DeviceInfo.type, a string: its characters.
TionS3 == <<"T", "i", "o", "n", "S", "3">>
TionS4 == <<"T", "i", "o", "n", "S", "4">>
TionLite == <<"T", "i", "o", "n", "L", "i", "t", "e">>
TionBase == <<"T", "i", "o", "n">>
DeviceTypes == {TionS3, TionS4, TionLite, TionBase}

\* Python's `sub in s` on strings.
str_contains(sub, s) ==
    \E i \in 1..(Len(s) - Len(sub) + 1) : SubSeq(s, i, i + Len(sub) - 1) = sub

\* The orders a query may return the rows of S in.
Orders(S) ==
    {q \in [1..Cardinality(S) -> S] : \A a \in S : \E i \in DOMAIN q : q[i] = a}

Pow2(n) == 2 ^ n

---------------------------------------------------------------------------
(* The state record, task locals and the event record *)

\* The locals of _run_scenarios_loop; on is false in every other task.
NoLoop ==
    [ on       |-> FALSE,
      queue    |-> <<>>,       \* the scenarios the for loop has left
      scenario |-> [present |-> FALSE],   \* scenario, the element of the list
      fetched  |-> <<>>,       \* history: the ids of scenarios, in order
      cached   |-> [present |-> FALSE],   \* history: the trigger device's cache entry at the call
      had_handle |-> FALSE,    \* history: whether the trigger's device had a handle then
      log      |-> <<>>,       \* history: what the cycle did with each scenario
      lap      |-> 0 ]         \* history: the parity of the number of cycles begun

LocInit ==
    [ d        |-> NoDev,      \* device_id / device_info.id
      h        |-> NoHandle,   \* device
      queue    |-> <<>>,       \* the devices the enclosing for loop has left
      caller   |-> "-",        \* who called _load_device
      n        |-> 0,          \* _load_device's retries argument
      attempt  |-> 0,          \* _load_device's attempt
      connects |-> 0,          \* history: connect calls of this load
      outcomes |-> <<>>,       \* history: how each connect call of this load ended
      sleeps   |-> <<>>,       \* history: the backoff sleeps of this load
      prop     |-> "-",        \* _set_device_property's prop
      value    |-> "-",        \* _set_device_property's value
      scenario |-> NoRow,      \* execute_scenario's scenario
      lo       |-> 0,          \* history: the writes the device had applied when get() was called
      active   |-> {},         \* history: the cycle's active_devices
      had      |-> {},         \* history: the devices with a handle when the cycle began
      log      |-> <<>>,       \* history: the outcomes of this polling cycle
      items    |-> <<>>,       \* shutdown's list(self._devices.items()), what is left of it
      at       |-> "-",        \* history: the await the task was suspended on when cancelled
      loop     |-> NoLoop ]    \* _run_scenarios_loop's frame, under the calls it awaits

NoEv == [op |-> "-"]

\* trigs: the _should_execute_scenario calls that returned or raised in the
\* segment, in order.  io: the handle call whose return or raise resumed the
\* segment, where the caller's answer is compared with it.  prior: the cache
\* entry the poll's write took the place of.
EvInit ==
    [ load |-> NoEv, unit |-> NoEv, cycle |-> NoEv, call |-> NoEv, trigs |-> <<>>,
      io |-> NoEv, prior |-> NoEv ]

Cur ==
    [ registry |-> registry, scenarios |-> scenarios, retries |-> retries,
      devices |-> devices, status_cache |-> status_cache, hconn |-> hconn,
      devVer |-> devVer, written |-> written, now |-> now, pc |-> pc, loc |-> loc, ev |-> EvInit ]

\* The handles some reference holds.
LiveHandles(s) ==
    ({s.devices[d] : d \in Dev} \cup {s.loc[t].h : t \in Task}
        \cup UNION {{s.loc[t].items[i].h : i \in DOMAIN s.loc[t].items} : t \in Task})
    \ {NoHandle}

\* A handle nobody refers to is garbage: its flag is forgotten.
Collect(s) == [s EXCEPT !.hconn = s.hconn \cap LiveHandles(s)]

Commit(s0) ==
    LET s == Collect(s0) IN
    /\ registry' = s.registry
    /\ scenarios' = s.scenarios
    /\ retries' = s.retries
    /\ devices' = s.devices
    /\ status_cache' = s.status_cache
    /\ hconn' = s.hconn
    /\ devVer' = s.devVer
    /\ written' = s.written
    /\ now' = s.now
    /\ pc' = s.pc
    /\ loc' = s.loc
    /\ ev' = s.ev

\* device_class(device_info.mac_address): a new handle object, not connected.
NewHandle(s) == CHOOSE h \in Handle : h \notin LiveHandles(s) /\ \A g \in Handle : g < h => g \in LiveHandles(s)

\* The locals of a coroutine called by task t, at its call.
Frame(s, t) == [LocInit EXCEPT !.loop = s.loc[t].loop]

\* A coroutine called by task t returns or raises: pc "idle" is the caller's
\* segment going on (the automation loop's), or the task's end.
Finish(s, t, call) ==
    [s EXCEPT !.pc[t] = "idle", !.loc[t] = Frame(s, t), !.ev.call = call]

---------------------------------------------------------------------------
(* asyncio's Task.cancel() and the replacement of a loop task *)

\* task.cancel() on a loop task that has not ended (a task that has is left
\* as it is): CancelledError is thrown into it when it is next resumed, and
\* no handler of the loop catches it (except Exception does not).
cancel(s, task) ==
    IF s.pc[task] \in {"idle", "done", "cancelled"}
    THEN s
    ELSE [s EXCEPT !.pc[task] = "cancelled", !.loc[task].at = s.pc[task]]

\* The task the attribute referred to is not cancelled before it is replaced.
replaced_running(s, task, old) ==
    [s EXCEPT !.pc[old] = IF s.pc[task] = "cancelled" THEN s.loc[task].at ELSE s.pc[task],
              !.loc[old] = s.loc[task]]

\* self._polling_task = asyncio.create_task(...) while the task the attribute
\* referred to has not ended: that task lives on, without the attribute, as old.
replaced(s, task, old) ==
    [s EXCEPT !.pc[old] = s.pc[task], !.loc[old] = s.loc[task]]

---------------------------------------------------------------------------
(* The device handle's get() and DeviceStatus *)

\* The property map of a device that reports every property.
FullReading ==
    [ state |-> "on", fan_speed |-> 4, heater |-> "on", heater_temp |-> 20,
      mode |-> "mixed", in_temp |-> 18, out_temp |-> 22, filter_remain |-> 90,
      sound |-> "on", light |-> "on" ]

Restrict(f, keys) == [k \in keys |-> f[k]]

\* The property maps get() may return: every property, or some of them missing.
Readings ==
    { FullReading,
      Restrict(FullReading, DOMAIN FullReading \ {"fan_speed", "mode", "sound"}) }

\* Python's dict.get(key, default)
dict_get(m, key, default) == IF key \in DOMAIN m THEN m[key] ELSE default

\* History kept with a cached status: the writes the device had applied when it
\* was read (ver) and when the get() was called (lo), and `written` when the
\* status was stored (at).
Read(ver, lo, at) == [ver |-> ver, lo |-> lo, at |-> at]
NotRead == Read(-1, -1, -1)

DeviceStatus(d, state, fan_speed, heater_status, heater_temp, mode, in_temp, out_temp, filter_remain, sound, light, last_updated, error, read) ==
    [ present |-> TRUE, device_id |-> d, state |-> state, fan_speed |-> fan_speed,
      heater_status |-> heater_status, heater_temp |-> heater_temp, mode |-> mode,
      in_temp |-> in_temp, out_temp |-> out_temp, filter_remain |-> filter_remain,
      sound |-> sound, light |-> light, last_updated |-> last_updated,
      error |-> error, read |-> read ]

\* The status _update_devices_status builds from a get(): every key defaulted.
polled_status(d, m, t0, read) ==
    DeviceStatus(d, dict_get(m, "state", "unknown"), dict_get(m, "fan_speed", 0),
                 dict_get(m, "heater", "off"), dict_get(m, "heater_temp", 0),
                 dict_get(m, "mode", "outside"), dict_get(m, "in_temp", 0),
                 dict_get(m, "out_temp", 0), dict_get(m, "filter_remain", 0),
                 dict_get(m, "sound", "off"), dict_get(m, "light", "off"),
                 t0, "None", read)

\* The status _update_devices_status builds from an exception.
error_status(d, t0, e) ==
    DeviceStatus(d, "error", 0, "error", 0, "unknown", 0, 0, 0, "off", "off", t0, e,
                 NotRead)

\* The keys get_device_status indexes without a default: status["state"], ...
RequiredKeys ==
    {"state", "fan_speed", "heater", "heater_temp", "in_temp", "out_temp",
     "filter_remain"}

\* The status get_device_status builds from a get() that has the required keys.
read_status(d, m, t0, read) ==
    DeviceStatus(d, m["state"], m["fan_speed"], m["heater"], m["heater_temp"],
                 dict_get(m, "mode", "outside"), m["in_temp"], m["out_temp"],
                 m["filter_remain"], dict_get(m, "sound", "off"),
                 dict_get(m, "light", "off"), t0, "None", read)

(* What a call gives its caller *)

Returns(v) == [kind |-> "return", value |-> v]
Raises(exc, msg) == [kind |-> "raise", exc |-> exc, msg |-> msg]
Awaits == [kind |-> "await"]

---------------------------------------------------------------------------
(* DeviceManager *)

\* get_devices(): the active rows; ORDER BY name is some order of them.
get_devices(s) == {d \in Dev : s.registry[d].is_active}

\* get_connected_devices(): {d.id: d for d in devices if d.is_active and d.is_paired}
get_connected_devices(s) ==
    {d \in get_devices(s) : s.registry[d].is_active /\ s.registry[d].is_paired}

---------------------------------------------------------------------------
(* Operator._load_device *)

\* _load_device from its call to its first await: the handle object is created
\* and the first connect() is in flight (retries >= 1).
load_device(s, t, d, n, caller) ==
    [s EXCEPT !.pc[t] = "ld_connect",
              !.loc[t] = [s.loc[t] EXCEPT !.d = d, !.h = NewHandle(s), !.n = n,
                                          !.caller = caller, !.attempt = 1,
                                          !.connects = 1, !.outcomes = <<>>,
                                          !.sleeps = <<>>]]

\* A backoff of 2**(attempt - 1): the exponent off by one.
load_backoff_exponent_off(attempt, n) ==
    IF attempt < n THEN <<Pow2(attempt - 1)>> ELSE <<>>

\* A backoff after the last attempt too.
load_backoff_after_last(attempt, n) ==
    IF attempt <= n THEN <<Pow2(attempt)>> ELSE <<>>

\* if attempt < retries: await asyncio.sleep(2**attempt)
load_backoff(attempt, n) == IF attempt < n THEN <<Pow2(attempt)>> ELSE <<>>

\* What _load_device's return leaves: the event, and the load's locals cleared.
load_result(s, t, r) ==
    LET l == s.loc[t] IN
    [s EXCEPT !.ev.load = [op |-> "load", t |-> t, d |-> l.d, ret |-> r, n |-> l.n,
                           h |-> l.h, connects |-> l.connects,
                           outcomes |-> l.outcomes, sleeps |-> l.sleeps,
                           caller |-> l.caller],
              !.loc[t] = [l EXCEPT !.h = r, !.n = 0, !.attempt = 0, !.connects = 0,
                                   !.outcomes = <<>>, !.sleeps = <<>>]]

\* The connect() succeeded: self._devices[device_info.id] = device; return device
load_connected(s, t) ==
    LET l == s.loc[t] IN
    load_result([s EXCEPT !.devices[l.d] = l.h, !.hconn = s.hconn \cup {l.h}], t, l.h)

\* for attempt in range(1, retries + 1): the next iteration's connect() is in
\* flight, or the loop is over: return None
load_next(s, t) ==
    LET l == s.loc[t] IN
    IF l.attempt < l.n
    THEN [s EXCEPT !.pc[t] = "ld_connect",
                   !.loc[t].attempt = l.attempt + 1,
                   !.loc[t].connects = l.connects + 1]
    ELSE load_result([s EXCEPT !.pc[t] = "ld_return"], t, NoHandle)

\* The exception of the last attempt is not caught: the caller gets neither a
\* handle nor None (-1 stands for the exception).
load_failed_last_propagates(s, t) ==
    LET l == s.loc[t]
        nap == load_backoff(l.attempt, l.n)
    IN  IF nap # <<>>
        THEN [s EXCEPT !.pc[t] = "ld_sleep", !.loc[t].sleeps = l.sleeps \o nap]
        ELSE load_result([s EXCEPT !.pc[t] = "ld_return"], t, -1)

\* The connect() raised (except Exception): back off if an attempt is left.
load_failed(s, t) ==
    LET l == s.loc[t]
        nap == load_backoff(l.attempt, l.n)
    IN  IF nap # <<>>
        THEN [s EXCEPT !.pc[t] = "ld_sleep", !.loc[t].sleeps = l.sleeps \o nap]
        ELSE load_next(s, t)

---------------------------------------------------------------------------
(* Operator.initialize *)

\* for device in devices: await self._load_device(device, self._retries)
initialize_loop(s, t) ==
    LET q == s.loc[t].queue IN
    IF q = <<>>
    THEN Finish(s, t, [op |-> "initialize", t |-> t])
    ELSE load_device([s EXCEPT !.loc[t].queue = Tail(q)], t, Head(q), s.retries,
                     "initialize")

initialize(s, t, order) ==
    initialize_loop([s EXCEPT !.loc[t].queue = order], t)

---------------------------------------------------------------------------
(* Operator._update_devices_status and Operator._poll_devices *)

\* History: one device of the cycle has been dealt with.
poll_unit_end(s, t, outcome) ==
    LET u == [op |-> "unit", d |-> s.loc[t].d, h |-> s.loc[t].h, outcome |-> outcome] IN
    [s EXCEPT !.ev.unit = u, !.loc[t].log = Append(s.loc[t].log, u)]

\* device.get() is called and awaited at pc.
get_call(s, t, at) ==
    [s EXCEPT !.pc[t] = at, !.loc[t].lo = s.devVer[s.loc[t].d]]

\* get() is called whatever connection_status says.
poll_check_connection_skipped(s, t) == get_call(s, t, "poll_get")

\* if not device.connection_status: await device.connect()
\* status = await device.get()
poll_check_connection(s, t) ==
    IF s.loc[t].h \notin s.hconn
    THEN [s EXCEPT !.pc[t] = "poll_connect"]
    ELSE get_call(s, t, "poll_get")

\* A device without a handle is passed over: no load from scratch.
poll_loop_skips_unloaded(s, t) ==
    LET unloaded(d) == s.devices[d] # NoHandle
        q == SelectSeq(s.loc[t].queue, unloaded)
    IN  IF q = <<>>
        THEN [s EXCEPT !.pc[t] = "poll_sleep",
                       !.loc[t] = LocInit,
                       !.ev.cycle = [op |-> "cycle", log |-> s.loc[t].log,
                                     had |-> s.loc[t].had, active |-> s.loc[t].active]]
        ELSE poll_check_connection([s EXCEPT !.loc[t].queue = Tail(q),
                                             !.loc[t].d = Head(q),
                                             !.loc[t].h = s.devices[Head(q)]], t)

\* for device_id, device_info in active_devices.items(): up to the next await;
\* after the last device _update_devices_status returns and _poll_devices
\* awaits asyncio.sleep(interval).
poll_loop(s, t) ==
    LET q == s.loc[t].queue IN
    IF q = <<>>
    THEN [s EXCEPT !.pc[t] = "poll_sleep",
                   !.loc[t] = LocInit,
                   !.ev.cycle = [op |-> "cycle", log |-> s.loc[t].log,
                                 had |-> s.loc[t].had, active |-> s.loc[t].active]]
    ELSE LET d == Head(q)
             s1 == [s EXCEPT !.loc[t].queue = Tail(q), !.loc[t].d = d,
                             !.loc[t].h = s.devices[d]]
         IN  IF s.devices[d] = NoHandle
             THEN load_device(s1, t, d, DefaultRetries, "poll")
             ELSE poll_check_connection(s1, t)

\* device = await self._load_device(device_info); if not device: continue
poll_loaded(s, t) ==
    IF s.loc[t].h = NoHandle
    THEN poll_loop(poll_unit_end(s, t, "load failed"), t)
    ELSE poll_check_connection(s, t)

\* The exception ends the cycle: the devices left are not polled.
poll_except_ends_cycle(s, t, e) ==
    LET d == s.loc[t].d IN
    poll_loop(poll_unit_end([s EXCEPT !.status_cache[d] = error_status(d, s.now, e),
                                      !.devices[d] = NoHandle,
                                      !.loc[t].queue = <<>>], t, e), t)

\* The error is flagged on the entry the cache holds, its reading kept.
poll_except_flags_entry(s, t, e) ==
    LET d == s.loc[t].d
        entry == IF s.status_cache[d].present
                 THEN [s.status_cache[d] EXCEPT !.error = e, !.last_updated = s.now]
                 ELSE error_status(d, s.now, e)
    IN  poll_loop(poll_unit_end([s EXCEPT !.status_cache[d] = entry,
                                          !.devices[d] = NoHandle,
                                          !.ev.prior = s.status_cache[d]], t, e), t)

\* except Exception as e: the error status, and the handle dropped from the map.
poll_except(s, t, e) ==
    LET d == s.loc[t].d IN
    poll_loop(poll_unit_end([s EXCEPT !.status_cache[d] = error_status(d, s.now, e),
                                      !.devices[d] = NoHandle,
                                      !.ev.prior = s.status_cache[d]], t, e), t)

\* What the handle's connect() gave _update_devices_status.
ConnectIO(s, t, ok) ==
    [s EXCEPT !.ev.io = [op |-> "connect", d |-> s.loc[t].d, h |-> s.loc[t].h,
                         outcome |-> IF ok THEN "return" ELSE "raise"]]

\* await device.connect() in _update_devices_status returns or raises.
poll_connect_return(s, t, ok) ==
    IF ok
    THEN get_call(ConnectIO([s EXCEPT !.hconn = s.hconn \cup {s.loc[t].h}], t, ok),
                  t, "poll_get")
    ELSE poll_except(ConnectIO(s, t, ok), t, "connect failed")

\* await device.get() in _update_devices_status returns m (read when the device
\* had applied ver writes), and the cache entry is written.
poll_get_return(s, t, m, ver) ==
    LET d == s.loc[t].d
        read == Read(ver, s.loc[t].lo, s.written[d])
    IN  poll_loop(poll_unit_end([s EXCEPT !.status_cache[d] =
                                              polled_status(d, m, s.now, read),
                                          !.ev.prior = s.status_cache[d]],
                                t, "ok"), t)

\* await device.get() in _update_devices_status raises.
poll_get_raise(s, t) == poll_except(s, t, "get failed")

\* A cycle begins: active_devices = self.device_manager.get_connected_devices()
update_devices_status(s, t, order) ==
    poll_loop([s EXCEPT !.now = s.now + 1,
                        !.loc[t] = [LocInit EXCEPT
                                        !.queue = order,
                                        !.active = {order[i] : i \in DOMAIN order},
                                        !.had = {d \in Dev : s.devices[d] # NoHandle}]],
              t)

\* The exception leaves _update_devices_status and _poll_devices: the task ends.
poll_registry_failed_ends_task(s, t) ==
    [s EXCEPT !.now = s.now + 1, !.pc[t] = "done", !.loc[t] = LocInit]

\* active_devices = self.device_manager.get_connected_devices() raises: the
\* outer except Exception logs "Polling error", _update_devices_status returns
\* and _poll_devices awaits asyncio.sleep(interval).
poll_registry_failed(s, t) ==
    [s EXCEPT !.now = s.now + 1,
              !.pc[t] = "poll_sleep",
              !.loc[t] = LocInit,
              !.ev.cycle = [op |-> "cycle failed", log |-> <<>>, active |-> {},
                            had |-> {d \in Dev : s.devices[d] # NoHandle}]]

\* start_polling: the running polling task is cancelled and a new one created.
start_polling(s, t) ==
    LET s1 == IF s.pc["poll"] \in {"idle", "done"}
              THEN s
              ELSE replaced(cancel(s, "poll"), "poll", "poll_old")
    IN  Finish([s1 EXCEPT !.pc["poll"] = "poll_start", !.loc["poll"] = LocInit], t,
               [op |-> "start_polling", t |-> t, was |-> s.pc["poll"]])

---------------------------------------------------------------------------
(* DeviceManager.get_device and Operator.reconnect_device *)

\* An id the devices table has no row of.
Unknown == "d9"

\* get_device(device_id): the row, whatever its is_active, or None (NoRow).
get_device(s, d) == IF d \in DOMAIN s.registry THEN s.registry[d] ELSE NoRow

\* What reconnect_device(d) gave (ret): old is the handle the map held for d at
\* the call, log how the disconnect() of it ended.
Reconn(t, d, ret, old, log) ==
    [op |-> "reconnect_device", t |-> t, d |-> d, ret |-> ret, old |-> old, log |-> log]

\* device = await self._load_device(device_info): its first connect() is in flight.
reconnect_load(s, t) == load_device(s, t, s.loc[t].d, DefaultRetries, "reconnect")

\* reconnect_device up to its await of disconnect() or of the load's first
\* connect(), or to its return for an id the registry does not know.
reconnect_device(s, t, d) ==
    IF ~get_device(s, d).present
    THEN Finish(s, t, Reconn(t, d, Returns(FALSE), NoHandle, <<>>))
    ELSE LET s1 == [s EXCEPT !.loc[t] = [LocInit EXCEPT !.d = d, !.value = s.devices[d]]]
         IN  IF s.devices[d] # NoHandle
             THEN [s1 EXCEPT !.pc[t] = "rc_disconnect", !.loc[t].h = s.devices[d]]
             ELSE reconnect_load(s1, t)

\* What the handle's disconnect() gave its caller.
DisconnectIO(s, t, ok) ==
    [s EXCEPT !.ev.io = [op |-> "disconnect", d |-> s.loc[t].d, h |-> s.loc[t].h,
                         outcome |-> IF ok THEN "return" ELSE "raise"]]

\* await self._devices[device_id].disconnect() returned (ok) or raised (passed
\* over); del self._devices[device_id] raises KeyError if the entry has gone.
reconnect_disconnected(s, t, ok) ==
    LET l == s.loc[t]
        s1 == [DisconnectIO(s, t, ok) EXCEPT
                   !.loc[t].log = Append(l.log, [d |-> l.d, h |-> l.h, ok |-> ok])]
    IN  IF s.devices[l.d] = NoHandle
        THEN Finish(s1, t, Reconn(t, l.d, Raises("KeyError", l.d), l.value, s1.loc[t].log))
        ELSE reconnect_load([s1 EXCEPT !.devices[l.d] = NoHandle], t)

\* return device is not None
reconnect_loaded(s, t) ==
    LET l == s.loc[t] IN
    Finish(s, t, Reconn(t, l.d, Returns(l.h # NoHandle), l.value, l.log))

---------------------------------------------------------------------------
(* The return of _load_device into its caller *)

load_return(s, t) ==
    CASE s.loc[t].caller = "initialize" -> initialize_loop(s, t)
      [] s.loc[t].caller = "poll" -> poll_loaded(s, t)
      [] s.loc[t].caller = "reconnect" -> reconnect_loaded(s, t)

\* Resume a task inside _load_device: run to its next await, or return.
load_resume(s, t) ==
    IF s.pc[t] \in {"ld_connect", "ld_sleep"} THEN s ELSE load_return(s, t)

\* await device.connect() in _load_device returns or raises.
load_connect_return(s, t, ok) ==
    load_resume(IF ok THEN load_connected([s EXCEPT !.pc[t] = "ld_return"], t)
                      ELSE load_failed(s, t), t)

\* await asyncio.sleep(2**attempt) returns.
load_sleep_return(s, t) == load_resume(load_next(s, t), t)

---------------------------------------------------------------------------
(* Operator.get_device_status *)

\* What an on-demand call did in the segment: op(d, arg) gave ret.
Call(op, t, d, arg, ret) == [op |-> op, t |-> t, d |-> d, arg |-> arg, ret |-> ret]

\* An entry older than now is refreshed too: a freshness check.
get_device_status_ttl(s, t, d, force_refresh) ==
    LET op == "get_device_status"
        stale == s.status_cache[d].present /\ s.status_cache[d].last_updated < s.now
    IN  IF force_refresh \/ ~s.status_cache[d].present \/ stale
        THEN IF s.devices[d] = NoHandle
             THEN Finish(s, t, Call(op, t, d, force_refresh,
                                    Raises("ValueError", "not loaded")))
             ELSE get_call([s EXCEPT !.loc[t].d = d, !.loc[t].h = s.devices[d],
                                     !.loc[t].value = force_refresh,
                                     !.ev.call = Call(op, t, d, force_refresh, Awaits)],
                           t, "read_get")
        ELSE Finish(s, t, Call(op, t, d, force_refresh, Returns(s.status_cache[d])))

\* get_device_status up to its await of device.get(), or to its return.
get_device_status(s, t, d, force_refresh) ==
    LET op == "get_device_status" IN
    IF force_refresh \/ ~s.status_cache[d].present
    THEN IF s.devices[d] = NoHandle
         THEN Finish(s, t, Call(op, t, d, force_refresh,
                                Raises("ValueError", "not loaded")))
         ELSE get_call([s EXCEPT !.loc[t].d = d, !.loc[t].h = s.devices[d],
                                 !.loc[t].value = force_refresh,
                                 !.ev.call = Call(op, t, d, force_refresh, Awaits)],
                       t, "read_get")
    ELSE Finish(s, t, Call(op, t, d, force_refresh, Returns(s.status_cache[d])))

\* What the handle's get() gave get_device_status: the property map m, or a raise.
GetIO(s, t, outcome, m) ==
    [s EXCEPT !.ev.io = [op |-> "get", d |-> s.loc[t].d, h |-> s.loc[t].h,
                         outcome |-> outcome, m |-> m]]

\* await device.get() in get_device_status returns m: a missing required key
\* raises KeyError, else the entry is written and returned.
read_get_return(s, t, m, ver) ==
    LET d == s.loc[t].d
        op == "get_device_status returns"
        read == Read(ver, s.loc[t].lo, s.written[d])
        status == read_status(d, m, s.now, read)
        s1 == GetIO(s, t, "return", m)
    IN  IF RequiredKeys \subseteq DOMAIN m
        THEN Finish([s1 EXCEPT !.status_cache[d] = status], t,
                    Call(op, t, d, s.loc[t].value, Returns(status)))
        ELSE Finish(s1, t, Call(op, t, d, s.loc[t].value,
                                Raises("KeyError", "missing key")))

\* await device.get() in get_device_status raises: the exception propagates.
read_get_raise(s, t) ==
    Finish(GetIO(s, t, "raise", <<>>), t,
           Call("get_device_status returns", t, s.loc[t].d, s.loc[t].value,
                Raises("TionException", "get failed")))

---------------------------------------------------------------------------
(* The setters and Operator._set_device_property *)

\* _set_device_property up to its await of device.set({prop: value})
set_device_property(s, t, op, d, prop, value) ==
    IF s.devices[d] = NoHandle
    THEN Finish(s, t, Call(op, t, d, value, Raises("ValueError", "not loaded")))
    ELSE [s EXCEPT !.pc[t] = "set_set",
                   !.loc[t] = [LocInit EXCEPT !.d = d, !.h = s.devices[d],
                                              !.caller = op, !.prop = prop,
                                              !.value = value],
                   !.ev.call = Call(op, t, d, value, Awaits)]

\* A setter that refuses value: raise ValueError(...)
set_refused(s, t, op, d, value, msg) ==
    Finish(s, t, Call(op, t, d, value, Raises("ValueError", msg)))

\* if state not in ("on", "off")
valid_state(state) == state \in {"on", "off"}

\* The upper bound off by one: 7 is let through.
valid_fan_speed_upto7(speed) == ~(speed < MinFanSpeed \/ speed > MaxFanSpeed + 1)

\* if speed < 0 or speed > 6
valid_fan_speed(speed) == ~(speed < MinFanSpeed \/ speed > MaxFanSpeed)

\* if temp < 10 or temp > 30
valid_heater_temp(temp) == ~(temp < MinHeaterTemp \/ temp > MaxHeaterTemp)

set_device_state(s, t, d, state) ==
    IF ~valid_state(state)
    THEN set_refused(s, t, "set_device_state", d, state, "state must be on or off")
    ELSE set_device_property(s, t, "set_device_state", d, "state", state)

set_fan_speed(s, t, d, speed) ==
    IF ~valid_fan_speed(speed)
    THEN set_refused(s, t, "set_fan_speed", d, speed, "fan speed out of range")
    ELSE set_device_property(s, t, "set_fan_speed", d, "fan_speed", speed)

set_heater_temp(s, t, d, temp) ==
    IF ~valid_heater_temp(temp)
    THEN set_refused(s, t, "set_heater_temp", d, temp, "temperature out of range")
    ELSE set_device_property(s, t, "set_heater_temp", d, "heater_temp", temp)

\* set_heater_state, set_mode, set_sound and set_light check nothing.
UncheckedSetters ==
    [ set_heater_state |-> "heater", set_mode |-> "mode", set_sound |-> "sound",
      set_light |-> "light" ]

set_unchecked(s, t, op, d, value) ==
    set_device_property(s, t, op, d, UncheckedSetters[op], value)

\* What the handle's set() gave _set_device_property: "True", "False" or "raise".
SetIO(s, t, outcome) ==
    [s EXCEPT !.ev.io = [op |-> "set", d |-> s.loc[t].d, h |-> s.loc[t].h,
                         outcome |-> outcome]]

\* The cache entry is kept.
set_done_keeps_entry(s, t, success) ==
    LET d == s.loc[t].d
        l == s.loc[t]
    IN  Finish(SetIO([s EXCEPT !.written[d] = s.devVer[d]], t, success),
               t, Call(l.caller \o " returns", t, d, l.value, Returns(TRUE)))

\* await device.set(...) in _set_device_property returns success ("True" or
\* "False"), which is dropped: the cache entry is invalidated and True returned.
set_done(s, t, success) ==
    LET d == s.loc[t].d
        l == s.loc[t]
    IN  Finish(SetIO([s EXCEPT !.status_cache[d] = NoStatus,
                               !.written[d] = s.devVer[d]], t, success),
               t, Call(l.caller \o " returns", t, d, l.value, Returns(TRUE)))

\* The handle is dropped from the connected map, as a failed poll drops it.
set_raise_drops_handle(s, t) ==
    LET l == s.loc[t] IN
    Finish(SetIO([s EXCEPT !.devices[l.d] = NoHandle], t, "raise"), t,
           Call(l.caller \o " returns", t, l.d, l.value, Returns(FALSE)))

\* await device.set(...) in _set_device_property raises: return False
set_raise(s, t) ==
    LET l == s.loc[t] IN
    Finish(SetIO(s, t, "raise"), t,
           Call(l.caller \o " returns", t, l.d, l.value, Returns(FALSE)))

---------------------------------------------------------------------------
(* Scenarist and DeviceManager.get_device_capabilities *)

ValidCommands == {"turn_on", "turn_off", "set_speed", "set_temp", "set_mode"}

\* The command is not checked.
validate_keys_only(action_params) ==
    {"device_id", "command"} \subseteq DOMAIN action_params

\* validate_action_params
validate_action_params(action_params) ==
    IF ~({"device_id", "command"} \subseteq DOMAIN action_params)
    THEN FALSE
    ELSE IF action_params["command"] \notin ValidCommands
         THEN FALSE
         ELSE TRUE

NoTime == -1

\* get_scenario: a new Scenario object built from the row, or None (NoRow).
\* The row has no execution columns: the object starts from the dataclass
\* defaults.
get_scenario(s, scenario_id) ==
    LET row == s.scenarios[scenario_id] IN
    IF ~row.present
    THEN NoRow
    ELSE [ present |-> TRUE, id |-> scenario_id, trigger_type |-> row.trigger_type,
           trigger_params |-> row.trigger_params,
           action_params |-> row.action_params, is_active |-> row.is_active,
           last_executed |-> NoTime, execution_count |-> 0, last_status |-> "None" ]

\* get_device_capabilities, for a device the registry has a row of.
get_device_capabilities(s, d) ==
    LET type == s.registry[d].type
        S3 == <<"S", "3">>
        S4 == <<"S", "4">>
        Lite == <<"L", "i", "t", "e">>
    IN  [ fan_control |-> TRUE,
          heater_control |-> str_contains(S3, type) \/ str_contains(S4, type),
          temperature_control |-> str_contains(S3, type) \/ str_contains(S4, type),
          light_control |-> str_contains(Lite, type),
          mode_control |-> str_contains(S4, type) ]

---------------------------------------------------------------------------
(* Operator.execute_scenario *)

\* What execute_scenario did in the segment.
Exec(t, scenario_id, ret, scenario, outcome) ==
    [ op |-> "execute_scenario", t |-> t, id |-> scenario_id, ret |-> ret,
      scenario |-> scenario, outcome |-> outcome ]

\* Only set_temp is gated.
execute_gated_temp_only(capabilities, command) ==
    command = "set_temp" /\ ~capabilities.temperature_control

\* The command's capability is missing: return False
execute_gated(capabilities, command) ==
    \/ command = "set_temp" /\ ~capabilities.temperature_control
    \/ command = "set_mode" /\ ~capabilities.mode_control

\* execute_scenario up to its await of device.set(scenario.action_params), or
\* to its return.
execute_scenario(s, t, scenario_id) ==
    LET scenario == get_scenario(s, scenario_id)
        refuse == Finish(s, t, Exec(t, scenario_id, Returns(FALSE), scenario, "-"))
    IN  IF ~scenario.present THEN refuse
        ELSE IF ~validate_action_params(scenario.action_params) THEN refuse
        ELSE LET device_id == scenario.action_params["device_id"]
                 command == scenario.action_params["command"]
             IN  IF s.devices[device_id] = NoHandle THEN refuse
                 ELSE IF execute_gated(get_device_capabilities(s, device_id), command)
                      THEN refuse
                      ELSE [s EXCEPT !.pc[t] = "exec_set",
                                     !.loc[t] = [Frame(s, t) EXCEPT
                                                    !.d = device_id,
                                                    !.h = s.devices[device_id],
                                                    !.scenario = scenario],
                                     !.ev.call = Exec(t, scenario_id, Awaits,
                                                      scenario, "-")]

\* The count is not incremented.
execute_track_no_count(scenario, t0, status) ==
    [scenario EXCEPT !.last_executed = t0, !.last_status = status]

\* scenario.last_executed = datetime.now(); scenario.execution_count += 1;
\* scenario.last_status = ...
execute_track(scenario, t0, status) ==
    [scenario EXCEPT !.last_executed = t0,
                     !.execution_count = scenario.execution_count + 1,
                     !.last_status = status]

\* The result is returned at once, the tracking left undone.
exec_set_return_untracked(s, t, success) ==
    LET scenario == s.loc[t].scenario IN
    Finish(s, t, Exec(t, scenario.id, Returns(success = "True"), scenario, success))

\* await device.set(...) in execute_scenario returns success ("True", "False").
exec_set_return(s, t, success) ==
    LET scenario == execute_track(s.loc[t].scenario, s.now, success) IN
    Finish(s, t, Exec(t, scenario.id, Returns(success = "True"), scenario, success))

\* await device.set(...) in execute_scenario raises.
exec_set_raise(s, t) ==
    LET scenario == execute_track(s.loc[t].scenario, s.now, "False") IN
    Finish(s, t, Exec(t, scenario.id, Returns(FALSE), scenario, "raise"))

---------------------------------------------------------------------------
(* Operator._should_execute_scenario *)

DigitValue ==
    ("0" :> 0) @@ ("1" :> 1) @@ ("2" :> 2) @@ ("3" :> 3) @@ ("4" :> 4) @@
    ("5" :> 5) @@ ("6" :> 6) @@ ("7" :> 7) @@ ("8" :> 8) @@ ("9" :> 9)

NotANumber == -1

\* The number one or two decimal digits write, as %H and %M read them.
Digits(text) ==
    IF Len(text) \notin {1, 2} \/ \E i \in DOMAIN text : text[i] \notin DOMAIN DigitValue
    THEN NotANumber
    ELSE IF Len(text) = 1
         THEN DigitValue[text[1]]
         ELSE 10 * DigitValue[text[1]] + DigitValue[text[2]]

\* datetime.time(hour, minute, second), which compares as its seconds since midnight.
TimeOfDay(hour, minute, second) == (hour * 60 + minute) * 60 + second

\* datetime.strptime(text, "%H:%M").time(): an hour of 0..23, a colon and a
\* minute of 0..59, or ValueError.
strptime_HM(text) ==
    LET colons == {i \in DOMAIN text : text[i] = ":"} IN
    IF Cardinality(colons) # 1
    THEN Raises("ValueError", "does not match format")
    ELSE LET i == CHOOSE j \in colons : TRUE
             hour == Digits(SubSeq(text, 1, i - 1))
             minute == Digits(SubSeq(text, i + 1, Len(text)))
         IN  IF hour \in 0..23 /\ minute \in 0..59
             THEN Returns(TimeOfDay(hour, minute, 0))
             ELSE Raises("ValueError", "does not match format")

\* The end of the window is left out.
in_window_end_exclusive(start, end, tod) == start <= tod /\ tod < end

\* return start <= now <= end
in_window(start, end, tod) == start <= tod /\ tod <= end

\* Both conditions are asked for.
in_overnight_window_both(start, end, tod) == tod >= start /\ tod <= end

\* return now >= start or now <= end
in_overnight_window(start, end, tod) == tod >= start \/ tod <= end

\* The time-based branch, now being tod.
should_execute_time(trigger_params, tod) ==
    IF "start" \notin DOMAIN trigger_params THEN Raises("KeyError", "start")
    ELSE LET start == strptime_HM(trigger_params["start"]) IN
    IF start.kind = "raise" THEN start
    ELSE IF "end" \notin DOMAIN trigger_params THEN Raises("KeyError", "end")
    ELSE LET end == strptime_HM(trigger_params["end"]) IN
    IF end.kind = "raise" THEN end
    ELSE IF start.value <= end.value
         THEN Returns(in_window(start.value, end.value, tod))
         ELSE Returns(in_overnight_window(start.value, end.value, tod))

\* The attributes of a DeviceStatus, by the type of the value they hold.
IntAttrs == {"fan_speed", "heater_temp", "in_temp", "out_temp", "filter_remain"}
StrAttrs == {"device_id", "state", "heater_status", "mode", "sound", "light"}

\* getattr(status, sensor_type, None): the value and its type
getattr(status, name) ==
    IF name \in IntAttrs THEN [type |-> "int", value |-> status[name]]
    ELSE IF name \in StrAttrs THEN [type |-> "str", value |-> status[name]]
    ELSE IF name = "last_updated" THEN [type |-> "datetime", value |-> status[name]]
    ELSE IF name = "error" /\ status.error # "None"
         THEN [type |-> "str", value |-> status.error]
         ELSE [type |-> "None"]

\* Greater or equal fires too.
compare_gt_inclusive(comparison, current_value, threshold) ==
    IF comparison = "gt" THEN Returns(current_value >= threshold)
    ELSE IF comparison = "lt" THEN Returns(current_value < threshold)
    ELSE IF comparison = "eq" THEN Returns(current_value = threshold)
    ELSE Returns(FALSE)

\* A comparison that is not known fires.
compare_unknown_fires(comparison, current_value, threshold) ==
    IF comparison = "gt" THEN Returns(current_value > threshold)
    ELSE IF comparison = "lt" THEN Returns(current_value < threshold)
    ELSE IF comparison = "eq" THEN Returns(current_value = threshold)
    ELSE Returns(TRUE)

\* if comparison == "gt": ... elif "lt": ... elif "eq": ...; return False
compare(comparison, current_value, threshold) ==
    IF comparison = "gt" THEN Returns(current_value > threshold)
    ELSE IF comparison = "lt" THEN Returns(current_value < threshold)
    ELSE IF comparison = "eq" THEN Returns(current_value = threshold)
    ELSE Returns(FALSE)

\* The sensor-based branch from the status get_device_status returned.
should_execute_sensor(trigger_params, status) ==
    IF "sensor" \notin DOMAIN trigger_params THEN Raises("KeyError", "sensor")
    ELSE IF "threshold" \notin DOMAIN trigger_params THEN Raises("KeyError", "threshold")
    ELSE LET comparison == dict_get(trigger_params, "comparison", "gt")
             current == getattr(status, trigger_params["sensor"])
         IN  IF current.type = "None" THEN Returns(FALSE)
             ELSE IF current.type = "int"
                  THEN compare(comparison, current.value, trigger_params["threshold"])
                  ELSE IF comparison \in {"gt", "lt"}
                       THEN Raises("TypeError", "not supported between str and int")
                       ELSE Returns(FALSE)

\* What a _should_execute_scenario call gave (ret): for which scenario, with
\* now read as tod (NoTime when it was not read), the cache entry of the
\* trigger's device and whether the device had a handle when it was called,
\* and whether it awaited a get(); and, in the automation loop, the cycle's
\* list and what the cycle had done with the scenarios before this one.
Trig(scenario, tod, cached, had_handle, refreshed, ret, fetched, done) ==
    [ op |-> "should_execute", scenario |-> scenario, tod |-> tod, cached |-> cached,
      had_handle |-> had_handle, refreshed |-> refreshed, ret |-> ret,
      fetched |-> fetched, done |-> done ]

\* _should_execute_scenario returns or raises ret.
trig_end(s, t, tod, refreshed, ret) ==
    LET lp == s.loc[t].loop IN
    [s EXCEPT !.ev.trigs = Append(s.ev.trigs, Trig(lp.scenario, tod, lp.cached,
                                                   lp.had_handle, refreshed, ret,
                                                   lp.fetched, lp.log))]

\* _should_execute_scenario(scenario) up to its await of device.get() (inside
\* get_device_status), or to its return.
should_execute_scenario(s, t, tod) ==
    LET scenario == s.loc[t].loop.scenario
        trigger_params == scenario.trigger_params
    IN  IF ~scenario.is_active THEN trig_end(s, t, NoTime, FALSE, Returns(FALSE))
        ELSE IF scenario.trigger_type = "time"
        THEN trig_end(s, t, tod, FALSE, should_execute_time(trigger_params, tod))
        ELSE IF scenario.trigger_type = "sensor"
        THEN IF "device_id" \notin DOMAIN trigger_params
             THEN trig_end(s, t, NoTime, FALSE, Returns(FALSE))
             ELSE LET device_id == trigger_params["device_id"]
                      s0 == [s EXCEPT !.loc[t].loop.cached = s.status_cache[device_id],
                                      !.loc[t].loop.had_handle =
                                          s.devices[device_id] # NoHandle]
                      s1 == get_device_status(s0, t, device_id, FALSE)
                      status == s1.ev.call.ret
                  IN  IF status.kind = "await" THEN s1
                      ELSE IF status.kind = "raise"
                           THEN trig_end(s1, t, NoTime, FALSE, status)
                           ELSE trig_end(s1, t, NoTime, FALSE,
                                         should_execute_sensor(trigger_params,
                                                               status.value))
        ELSE trig_end(s, t, NoTime, FALSE, Returns(FALSE))

\* await device.get() returned or raised inside get_device_status (s is the
\* state it left): _should_execute_scenario goes on from `status = ...`.
should_execute_resume(s, t) ==
    LET status == s.ev.call.ret IN
    IF status.kind = "raise"
    THEN trig_end(s, t, NoTime, TRUE, status)
    ELSE trig_end(s, t, NoTime, TRUE,
                  should_execute_sensor(s.loc[t].loop.scenario.trigger_params,
                                        status.value))

---------------------------------------------------------------------------
(* Scenarist.get_scenarios and Operator._run_scenarios_loop *)

\* get_scenarios(): the ids of the active rows; ORDER BY created_at DESC is
\* some order of them.
get_scenarios(s) ==
    {i \in DOMAIN s.scenarios : s.scenarios[i].present /\ s.scenarios[i].is_active}

\* History: what the cycle did with the scenario of this iteration, and what
\* the execute_scenario it awaited gave.
auto_log(s, t, did) ==
    LET lp == s.loc[t].loop IN
    [s EXCEPT !.loc[t].loop.log =
                  Append(lp.log, [id |-> lp.scenario.id, did |-> did,
                                  exec |-> IF did = "executed" THEN s.ev.call ELSE NoEv])]

\* The cycle is over (how: "done", or "except" from the handler of the try
\* around the for loop): await asyncio.sleep(60)
auto_sleep(s, t, how) ==
    LET lp == s.loc[t].loop IN
    [s EXCEPT !.pc[t] = "auto_sleep",
              !.loc[t] = [LocInit EXCEPT !.loop.on = TRUE, !.loop.lap = lp.lap],
              !.ev.cycle = [op |-> "auto_cycle", how |-> how, fetched |-> lp.fetched,
                            log |-> lp.log]]

RECURSIVE auto_loop(_, _, _)

\* await self.execute_scenario(scenario.id) has returned: the next iteration.
auto_executed(s, t, tod) ==
    auto_loop(auto_log(s, t, "executed"), t, tod)

\* if await self._should_execute_scenario(scenario): the call has returned or
\* raised (the last of ev.trigs).
auto_decided(s, t, tod) ==
    LET ret == s.ev.trigs[Len(s.ev.trigs)].ret IN
    IF ret.kind = "raise"
    THEN auto_sleep(auto_log(s, t, "raised"), t, "except")
    ELSE IF ret.value
         THEN LET s1 == execute_scenario(s, t, s.loc[t].loop.scenario.id) IN
              IF s1.pc[t] = "exec_set" THEN s1 ELSE auto_executed(s1, t, tod)
         ELSE auto_loop(auto_log(s, t, "skipped"), t, tod)

\* for scenario in scenarios: up to the next await; after the last scenario
\* the loop sleeps.
auto_loop(s, t, tod) ==
    LET lp == s.loc[t].loop IN
    IF lp.queue = <<>>
    THEN auto_sleep(s, t, "done")
    ELSE LET s1 == should_execute_scenario(
                       [s EXCEPT !.pc[t] = "idle",
                                 !.loc[t].loop.queue = Tail(lp.queue),
                                 !.loc[t].loop.scenario = Head(lp.queue)], t, tod)
         IN  IF s1.pc[t] = "read_get" THEN s1 ELSE auto_decided(s1, t, tod)

\* A cycle begins: scenarios = self.scenarist.get_scenarios()
run_scenarios_cycle(s, t, order, tod) ==
    auto_loop([s EXCEPT !.loc[t] = [LocInit EXCEPT
                            !.loop = [NoLoop EXCEPT
                                !.on = TRUE,
                                !.queue = [i \in DOMAIN order |-> get_scenario(s, order[i])],
                                !.fetched = order,
                                !.lap = 1 - s.loc[t].loop.lap]]], t, tod)

\* scenarios = self.scenarist.get_scenarios() raises: except Exception, the
\* error is logged and the loop sleeps.
auto_store_failed(s, t) ==
    auto_sleep([s EXCEPT !.loc[t] = [LocInit EXCEPT
                             !.loop = [NoLoop EXCEPT !.on = TRUE,
                                                     !.lap = 1 - s.loc[t].loop.lap]]],
               t, "except")

\* run_scenarios: the running automation task is cancelled and a new one created.
run_scenarios(s, t) ==
    LET s1 == IF s.pc["auto"] \in {"idle", "done"}
              THEN s
              ELSE replaced(cancel(s, "auto"), "auto", "auto_old")
    IN  Finish([s1 EXCEPT !.pc["auto"] = "auto_start",
                          !.loc["auto"] = [LocInit EXCEPT !.loop.on = TRUE]], t,
               [op |-> "run_scenarios", t |-> t, was |-> s.pc["auto"]])

\* await device.get() of the trigger's get_device_status returns m.
auto_get_return(s, t, m, ver, tod) ==
    auto_decided(should_execute_resume(read_get_return(s, t, m, ver), t), t, tod)

\* await device.get() of the trigger's get_device_status raises.
auto_get_raise(s, t, tod) ==
    auto_decided(should_execute_resume(read_get_raise(s, t), t), t, tod)

\* await device.set(...) of the loop's execute_scenario returns success.
auto_set_return(s, t, success, tod) == auto_executed(exec_set_return(s, t, success), t, tod)

\* await device.set(...) of the loop's execute_scenario raises.
auto_set_raise(s, t, tod) == auto_executed(exec_set_raise(s, t), t, tod)

\* Scenarist.delete_scenario: UPDATE scenarios SET is_active = 0 WHERE id = ?
delete_scenario(s, scenario_id) ==
    IF s.scenarios[scenario_id].present
    THEN [s EXCEPT !.scenarios[scenario_id].is_active = FALSE]
    ELSE s

---------------------------------------------------------------------------
(* _should_execute_scenario called on its own, as the unit tests call it *)

\* The call returned or raised (the last of ev.trigs): the caller's task is over.
should_execute_done(s, t) == [s EXCEPT !.pc[t] = "idle", !.loc[t] = LocInit]

\* await operator._should_execute_scenario(scenario)
should_execute_call(s, t, scenario, tod) ==
    LET s1 == should_execute_scenario([s EXCEPT !.loc[t].loop.scenario = scenario], t, tod)
    IN  IF s1.pc[t] = "read_get" THEN s1 ELSE should_execute_done(s1, t)

\* await device.get() of the trigger's get_device_status returns m.
should_execute_get_return(s, t, m, ver) ==
    should_execute_done(should_execute_resume(read_get_return(s, t, m, ver), t), t)

\* await device.get() of the trigger's get_device_status raises.
should_execute_get_raise(s, t) ==
    should_execute_done(should_execute_resume(read_get_raise(s, t), t), t)

---------------------------------------------------------------------------
(* Operator.shutdown *)

\* What the CancelledError ended: the await it was thrown at, and the load in
\* progress there, if any.
Cancelled(s, task) ==
    LET l == s.loc[task] IN
    [ op |-> "CancelledError", t |-> task, at |-> l.at, d |-> l.d, h |-> l.h,
      attempt |-> l.attempt, connects |-> l.connects ]

\* The CancelledError thrown at a backoff sleep is taken for a connection
\* failure: the load goes on to its next attempt.
task_cancelled_as_failure(s, task) ==
    IF s.loc[task].at = "ld_sleep"
    THEN load_sleep_return([s EXCEPT !.pc[task] = "ld_sleep"], task)
    ELSE [s EXCEPT !.pc[task] = "done", !.loc[task] = LocInit,
                   !.ev.call = Cancelled(s, task)]

\* The cancelled task is resumed: CancelledError is raised at its await, no
\* except Exception catches it, and the task ends.
task_cancelled(s, task) ==
    [s EXCEPT !.pc[task] = "done", !.loc[task] = LocInit,
              !.ev.call = Cancelled(s, task)]

\* for device_id, device in list(self._devices.items()): up to the await of
\* device.disconnect(), or to shutdown's return.
shutdown_loop(s, t) ==
    LET q == s.loc[t].items IN
    IF q = <<>>
    THEN Finish(s, t, [op |-> "shutdown", t |-> t, ret |-> Returns("None"),
                       had |-> s.loc[t].had, log |-> s.loc[t].log])
    ELSE [s EXCEPT !.pc[t] = "sd_disconnect",
                   !.loc[t].items = Tail(q),
                   !.loc[t].d = Head(q).d,
                   !.loc[t].h = Head(q).h]

\* The loop tasks are out of the way: the snapshot of the connected map, in order.
shutdown_devices(s, t, order) ==
    shutdown_loop([s EXCEPT !.loc[t].items = [i \in DOMAIN order |->
                                                [d |-> order[i], h |-> s.devices[order[i]]]],
                            !.loc[t].had = {order[i] : i \in DOMAIN order}], t)

\* if self._scenario_task: cancel it and await it.
shutdown_scenario_task(s, t, order) ==
    IF s.pc["auto"] = "idle"
    THEN shutdown_devices(s, t, order)
    ELSE LET s1 == cancel(s, "auto") IN
         IF s1.pc["auto"] = "done"
         THEN shutdown_devices(s1, t, order)
         ELSE [s1 EXCEPT !.pc[t] = "sd_await_auto"]

\* shutdown from its call: if self._polling_task: cancel it and await it.
shutdown(s, t, order) ==
    IF s.pc["poll"] = "idle"
    THEN shutdown_scenario_task(s, t, order)
    ELSE LET s1 == cancel(s, "poll") IN
         IF s1.pc["poll"] = "done"
         THEN shutdown_scenario_task(s1, t, order)
         ELSE [s1 EXCEPT !.pc[t] = "sd_await_poll"]

\* The handle is removed only when disconnect() returned.
shutdown_disconnected_else(s, t, ok) ==
    LET l == s.loc[t]
        s1 == [s EXCEPT !.loc[t].log = Append(l.log, [d |-> l.d, h |-> l.h, ok |-> ok])]
    IN  IF ~ok THEN shutdown_loop(s1, t)
        ELSE IF s.devices[l.d] = NoHandle
             THEN Finish(s1, t, [op |-> "shutdown", t |-> t,
                                 ret |-> Raises("KeyError", l.d),
                                 had |-> l.had, log |-> s1.loc[t].log])
             ELSE shutdown_loop([s1 EXCEPT !.devices[l.d] = NoHandle], t)

\* await device.disconnect() returned (ok) or raised: the exception is logged;
\* finally: del self._devices[device_id]
shutdown_disconnected(s, t, ok) ==
    LET l == s.loc[t]
        s1 == [DisconnectIO(s, t, ok) EXCEPT
                   !.loc[t].log = Append(l.log, [d |-> l.d, h |-> l.h, ok |-> ok])]
    IN  IF s.devices[l.d] = NoHandle
        THEN Finish(s1, t, [op |-> "shutdown", t |-> t,
                            ret |-> Raises("KeyError", l.d),
                            had |-> l.had, log |-> s1.loc[t].log])
        ELSE shutdown_loop([s1 EXCEPT !.devices[l.d] = NoHandle], t)

---------------------------------------------------------------------------
(* Actions *)

Users == {"u1", "u2"}

\* The task has not been created, or it has ended.
LoopEnded(task) == pc[task] \in {"idle", "done"}

Initialize(t) ==
    /\ pc[t] = "idle"
    /\ \E order \in Orders(get_devices(Cur)) : Commit(initialize(Cur, t, order))

LoadConnectReturn(t) ==
    /\ pc[t] = "ld_connect"
    /\ \E ok \in BOOLEAN :
         Commit(load_connect_return(
                    [Cur EXCEPT !.loc[t].outcomes = Append(loc[t].outcomes, ok)], t, ok))

LoadSleepReturn(t) ==
    /\ pc[t] = "ld_sleep"
    /\ Commit(load_sleep_return(Cur, t))

StartPolling(t) ==
    /\ pc[t] = "idle"
    /\ Commit(start_polling(Cur, t))

\* The polling task runs for the first time, or its interval sleep is over.
PollBegin ==
    /\ pc["poll"] \in {"poll_start", "poll_sleep"}
    /\ now < MaxNow
    /\ \E order \in Orders(get_connected_devices(Cur)) :
         Commit(update_devices_status(Cur, "poll", order))

\* A cycle begins after the clock of the model has stopped at MaxNow: it reads
\* the same now as the cycle before.
PollBeginLate ==
    /\ pc["poll"] \in {"poll_start", "poll_sleep"}
    /\ now = MaxNow
    /\ \E order \in Orders(get_connected_devices(Cur)) :
         Commit(update_devices_status([Cur EXCEPT !.now = MaxNow - 1], "poll", order))

\* A cycle begins and the registry's query fails.
PollRegistryFails ==
    /\ pc["poll"] \in {"poll_start", "poll_sleep"}
    /\ now < MaxNow
    /\ Commit(poll_registry_failed(Cur, "poll"))

PollConnectReturn ==
    /\ pc["poll"] = "poll_connect"
    /\ \E ok \in BOOLEAN : Commit(poll_connect_return(Cur, "poll", ok))

\* The get() samples the device somewhere between its call and its return.
PollGetReturn ==
    /\ pc["poll"] = "poll_get"
    /\ \E m \in Readings, ver \in loc["poll"].lo..devVer[loc["poll"].d] :
         Commit(poll_get_return(Cur, "poll", m, ver))

PollGetRaise ==
    /\ pc["poll"] = "poll_get"
    /\ Commit(poll_get_raise(Cur, "poll"))

\* The arguments the setters are called with.
StateArgs == {"on", "off", "auto"}
FanSpeedArgs == {MinFanSpeed - 1, MinFanSpeed, 3, MaxFanSpeed, MaxFanSpeed + 1}
HeaterTempArgs == {MinHeaterTemp - 1, MinHeaterTemp, MaxHeaterTemp, MaxHeaterTemp + 1}
UncheckedArgs == {"on", "anything"}

GetDeviceStatus(t) ==
    /\ pc[t] = "idle"
    /\ \E d \in Dev, force_refresh \in BOOLEAN :
         Commit(get_device_status(Cur, t, d, force_refresh))

ReadGetReturn(t) ==
    /\ pc[t] = "read_get"
    /\ \E m \in Readings, ver \in loc[t].lo..devVer[loc[t].d] :
         Commit(read_get_return(Cur, t, m, ver))

ReadGetRaise(t) ==
    /\ pc[t] = "read_get"
    /\ Commit(read_get_raise(Cur, t))

SetDeviceState(t) ==
    /\ pc[t] = "idle"
    /\ \E d \in Dev, state \in StateArgs : Commit(set_device_state(Cur, t, d, state))

SetFanSpeed(t, speeds) ==
    /\ pc[t] = "idle"
    /\ \E d \in Dev, speed \in speeds : Commit(set_fan_speed(Cur, t, d, speed))

SetHeaterTemp(t) ==
    /\ pc[t] = "idle"
    /\ \E d \in Dev, temp \in HeaterTempArgs : Commit(set_heater_temp(Cur, t, d, temp))

SetUnchecked(t) ==
    /\ pc[t] = "idle"
    /\ \E d \in Dev, op \in DOMAIN UncheckedSetters, value \in UncheckedArgs :
         Commit(set_unchecked(Cur, t, op, d, value))

\* The device applies the write and set() returns True, or it reports failure.
SetReturn(t) ==
    /\ pc[t] = "set_set"
    /\ LET d == loc[t].d IN
       \/ /\ devVer[d] < MaxWrites
          /\ Commit(set_done([Cur EXCEPT !.devVer[d] = devVer[d] + 1], t, "True"))
       \/ Commit(set_done(Cur, t, "False"))

SetRaise(t) ==
    /\ pc[t] = "set_set"
    /\ Commit(set_raise(Cur, t))

ExecuteScenario(t) ==
    /\ pc[t] = "idle"
    /\ \E scenario_id \in DOMAIN scenarios : Commit(execute_scenario(Cur, t, scenario_id))

ExecSetReturn(t) ==
    /\ pc[t] = "exec_set"
    /\ LET d == loc[t].d IN
       \/ /\ devVer[d] < MaxWrites
          /\ Commit(exec_set_return([Cur EXCEPT !.devVer[d] = devVer[d] + 1], t, "True"))
       \/ Commit(exec_set_return(Cur, t, "False"))

ExecSetRaise(t) ==
    /\ pc[t] = "exec_set"
    /\ Commit(exec_set_raise(Cur, t))

\* initialize is called on an Operator that holds no handle (at start-up).
Startup(t) ==
    /\ \A d \in Dev : devices[d] = NoHandle
    /\ pc["poll"] = "idle"
    /\ Initialize(t)

\* The link of a connected handle drops: its connection_status turns false.
LinkDrop ==
    \E h \in hconn : Commit([Cur EXCEPT !.hconn = hconn \ {h}])

\* The values datetime.now().time() is read as: around the ends of the
\* windows 08:00-18:00 and 22:00-06:00, and inside and outside them.
Clock ==
    { TimeOfDay(1, 0, 0), TimeOfDay(6, 0, 0), TimeOfDay(6, 0, 30), TimeOfDay(7, 59, 59),
      TimeOfDay(8, 0, 0), TimeOfDay(12, 0, 0), TimeOfDay(18, 0, 0), TimeOfDay(18, 0, 30),
      TimeOfDay(19, 0, 0), TimeOfDay(21, 59, 59), TimeOfDay(22, 0, 0),
      TimeOfDay(23, 30, 0) }

RunScenarios(t) ==
    /\ pc[t] = "idle"
    /\ Commit(run_scenarios(Cur, t))

\* The automation task runs for the first time, or its sleep(60) is over.
\* The time of day the automation engine's specifications read.
Noon == {TimeOfDay(12, 0, 0)}

AutoBegin(clock) ==
    /\ pc["auto"] \in {"auto_start", "auto_sleep"}
    /\ \E order \in Orders(get_scenarios(Cur)), tod \in clock :
         Commit(run_scenarios_cycle(Cur, "auto", order, tod))

\* A cycle begins and the rule store's query fails.
AutoStoreFails ==
    /\ pc["auto"] \in {"auto_start", "auto_sleep"}
    /\ Commit(auto_store_failed(Cur, "auto"))

AutoGetReturn(clock) ==
    /\ pc["auto"] = "read_get"
    /\ \E m \in Readings, ver \in loc["auto"].lo..devVer[loc["auto"].d], tod \in clock :
         Commit(auto_get_return(Cur, "auto", m, ver, tod))

AutoGetRaise(clock) ==
    /\ pc["auto"] = "read_get"
    /\ \E tod \in clock : Commit(auto_get_raise(Cur, "auto", tod))

AutoSetReturn(clock) ==
    /\ pc["auto"] = "exec_set"
    /\ \E tod \in clock :
         LET d == loc["auto"].d IN
         \/ /\ devVer[d] < MaxWrites
            /\ Commit(auto_set_return([Cur EXCEPT !.devVer[d] = devVer[d] + 1], "auto",
                                      "True", tod))
         \/ Commit(auto_set_return(Cur, "auto", "False", tod))

AutoSetRaise(clock) ==
    /\ pc["auto"] = "exec_set"
    /\ \E tod \in clock : Commit(auto_set_raise(Cur, "auto", tod))

\* Some caller of the Scenarist soft-deletes an active scenario.
DeleteScenario ==
    \E scenario_id \in get_scenarios(Cur) : Commit(delete_scenario(Cur, scenario_id))

Loaded == {d \in Dev : devices[d] # NoHandle}

Shutdown(t) ==
    /\ pc[t] = "idle"
    /\ \E order \in Orders(Loaded) : Commit(shutdown(Cur, t, order))

\* await self._polling_task is over: the task has ended.
ShutdownPollingAwaited(t) ==
    /\ pc[t] = "sd_await_poll"
    /\ pc["poll"] = "done"
    /\ \E order \in Orders(Loaded) : Commit(shutdown_scenario_task(Cur, t, order))

\* await self._scenario_task is over: the task has ended.
ShutdownScenarioAwaited(t) ==
    /\ pc[t] = "sd_await_auto"
    /\ pc["auto"] = "done"
    /\ \E order \in Orders(Loaded) : Commit(shutdown_devices(Cur, t, order))

\* disconnect() returns, the link closed, or raises, the link as it was.
ShutdownDisconnectReturn(t) ==
    /\ pc[t] = "sd_disconnect"
    /\ \/ Commit(shutdown_disconnected([Cur EXCEPT !.hconn = hconn \ {loc[t].h}], t, TRUE))
       \/ Commit(shutdown_disconnected(Cur, t, FALSE))

\* The event loop resumes a cancelled loop task.
TaskCancelled(task) ==
    /\ pc[task] = "cancelled"
    /\ Commit(task_cancelled(Cur, task))

\* A Scenario object as the rule store gives it, whatever its is_active.
ShouldExecute(t) ==
    /\ pc[t] = "idle"
    /\ \E scenario_id \in DOMAIN scenarios, tod \in Clock :
         /\ scenarios[scenario_id].present
         /\ Commit(should_execute_call(Cur, t, get_scenario(Cur, scenario_id), tod))

ShouldExecuteGetReturn(t) ==
    /\ pc[t] = "read_get"
    /\ loc[t].loop.scenario.present
    /\ \E m \in Readings, ver \in loc[t].lo..devVer[loc[t].d] :
         Commit(should_execute_get_return(Cur, t, m, ver))

ShouldExecuteGetRaise(t) ==
    /\ pc[t] = "read_get"
    /\ loc[t].loop.scenario.present
    /\ Commit(should_execute_get_raise(Cur, t))

\* reconnect_device is called for a registered id or for one the registry
\* does not know.
ReconnectDevice(t) ==
    /\ pc[t] = "idle"
    /\ \E d \in Dev \cup {Unknown} : Commit(reconnect_device(Cur, t, d))

\* disconnect() returns, the link closed, or raises, the link as it was.
ReconnectDisconnectReturn(t) ==
    /\ pc[t] = "rc_disconnect"
    /\ \/ Commit(reconnect_disconnected([Cur EXCEPT !.hconn = hconn \ {loc[t].h}], t, TRUE))
       \/ Commit(reconnect_disconnected(Cur, t, FALSE))

---------------------------------------------------------------------------
(* Initial states *)

Row(type, active, paired) ==
    [present |-> TRUE, type |-> type, is_active |-> active, is_paired |-> paired]

DigitChar == <<"0", "1", "2", "3", "4", "5", "6", "7", "8", "9">>

\* The text "HH:MM" of a time of day, as the trigger parameters hold it.
HM(hour, minute) ==
    << DigitChar[(hour \div 10) + 1], DigitChar[(hour % 10) + 1], ":",
       DigitChar[(minute \div 10) + 1], DigitChar[(minute % 10) + 1] >>

\* A scenarios row.
TriggerRow(trigger_type, trigger_params, action_params, active) ==
    [ present |-> TRUE, trigger_type |-> trigger_type,
      trigger_params |-> trigger_params,
      action_params |-> action_params, is_active |-> active ]

\* A scenarios row; the trigger is a time window.
ScenarioRow(action_params, active) ==
    TriggerRow("time", [start |-> HM(8, 0), end |-> HM(18, 0)], action_params, active)

\* The action_params a row may hold: well formed, with a command outside the
\* valid ones, and with a key missing.
ActionParams ==
    {[device_id |-> d, command |-> c] : d \in Dev, c \in ValidCommands \cup {"reboot"}}
        \cup {[command |-> "turn_on"], [device_id |-> "d1"]}

\* The Operator as constructed, over the tables regs and scens, with _retries in n.
InitWith(regs, scens, n) ==
    /\ registry \in regs
    /\ scenarios \in scens
    /\ retries \in n
    /\ devices = [d \in Dev |-> NoHandle]
    /\ status_cache = [d \in Dev |-> NoStatus]
    /\ hconn = {}
    /\ devVer = [d \in Dev |-> 0]
    /\ written = [d \in Dev |-> 0]
    /\ now = 0
    /\ pc = [t \in Task |-> "idle"]
    /\ loc = [t \in Task |-> LocInit]
    /\ ev = EvInit

NoScenarios == {[i \in {1} |-> NoRow]}

\* Registries for the polling loop: polled, active but not paired, inactive.
PollRows ==
    { Row(TionS4, TRUE, TRUE), Row(TionLite, TRUE, FALSE), Row(TionS3, FALSE, TRUE) }

(* The polling scheduler: initialize, then the polling loop on its own *)

InitPoll == InitWith([Dev -> PollRows], NoScenarios, {DefaultRetries})

NextPoll ==
    \/ Initialize("u1") /\ pc["poll"] = "idle"
    \/ StartPolling("u1") /\ pc["poll"] = "idle"
    \/ LoadConnectReturn("u1")
    \/ LoadSleepReturn("u1")
    \/ PollBegin
    \/ LoadConnectReturn("poll")
    \/ LoadSleepReturn("poll")
    \/ PollConnectReturn
    \/ PollGetReturn
    \/ PollGetRaise
    \/ LinkDrop

SpecPoll == InitPoll /\ [][NextPoll]_vars

(* The automation engine's execution step: one scenario row, of every shape,
   and one missing id; d1 of every type *)

InitScen ==
    InitWith({[d \in Dev |-> Row(IF d = "d1" THEN type ELSE TionLite, TRUE, TRUE)] :
                 type \in DeviceTypes},
             {[i \in {1, 2} |-> IF i = 1 THEN ScenarioRow(ap, TRUE) ELSE NoRow] :
                 ap \in ActionParams},
             {DefaultRetries})

NextScen ==
    \/ Startup("u1")
    \/ LoadConnectReturn("u1")
    \/ LoadSleepReturn("u1")
    \/ ExecuteScenario("u1")
    \/ ExecSetReturn("u1")
    \/ ExecSetRaise("u1")
    \/ LinkDrop

SpecScen == InitScen /\ [][NextScen]_vars

(* The status cache and the command dispatcher against the polling loop *)

\* d1 is polled; d2 is registered but not active.
OneActive == {[d \in Dev |-> Row(TionS4, d = "d1", TRUE)]}

InitCache == InitWith(OneActive, NoScenarios, {DefaultRetries})

NextCache ==
    \/ Startup("u1")
    \/ StartPolling("u1") /\ pc["poll"] = "idle"
    \/ LoadConnectReturn("u1")
    \/ LoadSleepReturn("u1")
    \/ SetFanSpeed("u1", {3})
    \/ SetReturn("u1")
    \/ SetRaise("u1")
    \/ GetDeviceStatus("u2")
    \/ ReadGetReturn("u2")
    \/ ReadGetRaise("u2")
    \/ PollBegin
    \/ LoadConnectReturn("poll")
    \/ LoadSleepReturn("poll")
    \/ PollConnectReturn
    \/ PollGetReturn
    \/ PollGetRaise
    \/ LinkDrop

SpecCache == InitCache /\ [][NextCache]_vars

(* The command dispatcher: every setter with every argument *)

NextSet ==
    \/ Startup("u1")
    \/ LoadConnectReturn("u1")
    \/ LoadSleepReturn("u1")
    \/ GetDeviceStatus("u2")
    \/ ReadGetReturn("u2")
    \/ ReadGetRaise("u2")
    \/ SetDeviceState("u1")
    \/ SetFanSpeed("u1", FanSpeedArgs)
    \/ SetHeaterTemp("u1")
    \/ SetUnchecked("u1")
    \/ SetReturn("u1")
    \/ SetRaise("u1")
    \/ LinkDrop

SpecSet == InitCache /\ [][NextSet]_vars

(* Trigger evaluation: one scenario row with a trigger of every shape *)

\* Time windows: by day, over midnight, of one instant; the hour written with
\* one digit; and parameters that do not parse or lack a key.
TimeTriggers ==
    { [start |-> HM(8, 0), end |-> HM(18, 0)],
      [start |-> HM(22, 0), end |-> HM(6, 0)],
      [start |-> HM(12, 0), end |-> HM(12, 0)],
      [start |-> <<"8", ":", "0", "0">>, end |-> HM(18, 0)],
      [start |-> HM(8, 0), end |-> <<"2", "4", ":", "0", "0">>],
      [start |-> <<"n", "o", "o", "n">>, end |-> HM(18, 0)],
      [start |-> HM(8, 0)] }

\* Sensor triggers: every comparison around the reading, the comparison
\* omitted or unknown, a field that is no number or no field, a key missing,
\* and a device that is never loaded.
SensorTriggers ==
    {[device_id |-> "d1", sensor |-> "fan_speed", threshold |-> th, comparison |-> c] :
        th \in {3, 4, 5}, c \in {"gt", "lt", "eq"}}
    \cup {[device_id |-> "d1", sensor |-> "fan_speed", threshold |-> th] : th \in {3, 4}}
    \cup { [device_id |-> "d1", sensor |-> "fan_speed", threshold |-> 3, comparison |-> "ge"],
           [device_id |-> "d1", sensor |-> "humidity", threshold |-> 3, comparison |-> "gt"],
           [device_id |-> "d1", sensor |-> "state", threshold |-> 3, comparison |-> "gt"],
           [device_id |-> "d1", sensor |-> "fan_speed"],
           [sensor |-> "fan_speed", threshold |-> 3],
           [device_id |-> "d2", sensor |-> "fan_speed", threshold |-> 3] }

TurnOn == [device_id |-> "d1", command |-> "turn_on"]

TriggerRows ==
    {TriggerRow("time", tp, TurnOn, active) : tp \in TimeTriggers, active \in BOOLEAN}
    \cup {TriggerRow("sensor", tp, TurnOn, active) : tp \in SensorTriggers, active \in BOOLEAN}
    \cup {TriggerRow("manual", [start |-> HM(8, 0), end |-> HM(18, 0)], TurnOn, TRUE)}

InitTrig == InitWith(OneActive, {[i \in {1} |-> row] : row \in TriggerRows}, {DefaultRetries})

NextTrig ==
    \/ Startup("u1")
    \/ LoadConnectReturn("u1")
    \/ LoadSleepReturn("u1")
    \/ ShouldExecute("u1")
    \/ ShouldExecuteGetReturn("u1")
    \/ ShouldExecuteGetRaise("u1")
    \/ GetDeviceStatus("u2")
    \/ ReadGetReturn("u2")
    \/ ReadGetRaise("u2")

SpecTrig == InitTrig /\ [][NextTrig]_vars

(* The automation engine: two scenario rows, the device d1, on-demand
   executions, and soft deletes of rows *)

AllDay == [start |-> HM(0, 0), end |-> HM(23, 59)]

\* The first row: a trigger that holds, active or not, one whose parameters
\* lack a key, and sensor triggers on d2, never loaded, and on d1: on a
\* field, on a name that is no field, and with a comparison that is not known.
FirstRows ==
    { TriggerRow("time", AllDay, TurnOn, TRUE),
      TriggerRow("time", AllDay, TurnOn, FALSE),
      TriggerRow("time", [start |-> HM(8, 0)], TurnOn, TRUE),
      TriggerRow("sensor", [device_id |-> "d2", sensor |-> "fan_speed", threshold |-> 3],
                 TurnOn, TRUE),
      TriggerRow("sensor", [device_id |-> "d1", sensor |-> "fan_speed", threshold |-> 3],
                 TurnOn, TRUE),
      TriggerRow("sensor", [device_id |-> "d1", sensor |-> "humidity", threshold |-> 3,
                            comparison |-> "lt"], TurnOn, TRUE),
      TriggerRow("sensor", [device_id |-> "d1", sensor |-> "fan_speed", threshold |-> 3,
                            comparison |-> "ge"], TurnOn, TRUE) }

\* The second row: a trigger that holds.
SecondRow == TriggerRow("time", AllDay, [device_id |-> "d1", command |-> "set_speed"], TRUE)

InitAuto ==
    InitWith(OneActive,
             {[i \in {1, 2} |-> IF i = 1 THEN row ELSE SecondRow] : row \in FirstRows},
             {DefaultRetries})

NextAuto ==
    \/ Startup("u1")
    \/ LoadConnectReturn("u1")
    \/ LoadSleepReturn("u1")
    \/ RunScenarios("u1") /\ pc["auto"] = "idle"
    \/ AutoBegin(Noon)
    \/ AutoGetReturn(Noon)
    \/ AutoGetRaise(Noon)
    \/ AutoSetReturn(Noon)
    \/ AutoSetRaise(Noon)
    \/ ExecuteScenario("u2")
    \/ ExecSetReturn("u2")
    \/ ExecSetRaise("u2")
    \/ DeleteScenario

SpecAuto == InitAuto /\ [][NextAuto]_vars

(* Shutdown against the two loops: both devices loaded, d1 polled, one
   scenario whose trigger holds *)

\* d1 is polled; d2 is active but not paired: initialize loads it, no cycle polls it.
BothActive == {[d \in Dev |-> Row(TionS4, TRUE, d = "d1")]}

InitShut ==
    InitWith(BothActive, {[i \in {1} |-> TriggerRow("time", AllDay, TurnOn, TRUE)]},
             {DefaultRetries})

NextShut ==
    \/ Startup("u1")
    \/ LoadConnectReturn("u1")
    \/ LoadSleepReturn("u1")
    \/ StartPolling("u1") /\ pc["poll"] = "idle"
    \/ RunScenarios("u1") /\ pc["auto"] = "idle"
    \/ PollBegin
    \/ LoadConnectReturn("poll")
    \/ LoadSleepReturn("poll")
    \/ PollGetReturn
    \/ PollGetRaise
    \/ AutoBegin(Noon)
    \/ AutoSetReturn(Noon)
    \/ AutoSetRaise(Noon)
    \/ Shutdown("u1")
    \/ ShutdownPollingAwaited("u1")
    \/ ShutdownScenarioAwaited("u1")
    \/ ShutdownDisconnectReturn("u1")
    \/ TaskCancelled("poll")
    \/ TaskCancelled("auto")

SpecShut == InitShut /\ [][NextShut]_vars

(* reconnect_device on demand against the polling loop: d1 is polled *)

NextReconn ==
    \/ Startup("u1")
    \/ LoadConnectReturn("u1")
    \/ LoadSleepReturn("u1")
    \/ ReconnectDevice("u1")
    \/ ReconnectDisconnectReturn("u1")
    \/ StartPolling("u1") /\ pc["poll"] = "idle"
    \/ PollBegin
    \/ LoadConnectReturn("poll")
    \/ LoadSleepReturn("poll")
    \/ PollGetReturn
    \/ PollGetRaise

SpecReconn == InitCache /\ [][NextReconn]_vars

(* The two loops with every failure of a cycle, and a shutdown: d1 is polled,
   one scenario whose trigger holds or whose evaluation raises.  The event
   loop resumes a task whose asyncio.sleep is over: a loop that stays asleep
   and is not cancelled begins its next cycle (weak fairness of the steps that
   begin a cycle). *)

InitLoops ==
    InitWith(BothActive,
             {[i \in {1} |-> TriggerRow("time", tp, TurnOn, TRUE)] :
                 tp \in {AllDay, [start |-> HM(8, 0)]}},
             {DefaultRetries})

PollCycleBegins == PollBegin \/ PollRegistryFails
AutoCycleBegins == AutoBegin(Noon) \/ AutoStoreFails

NextLoops ==
    \/ Startup("u1")
    \/ LoadConnectReturn("u1")
    \/ LoadSleepReturn("u1")
    \/ StartPolling("u1") /\ pc["poll"] = "idle"
    \/ RunScenarios("u1") /\ pc["auto"] = "idle"
    \/ PollBegin
    \/ PollRegistryFails
    \/ LoadConnectReturn("poll")
    \/ LoadSleepReturn("poll")
    \/ PollGetReturn
    \/ PollGetRaise
    \/ AutoBegin(Noon)
    \/ AutoStoreFails
    \/ AutoSetReturn(Noon)
    \/ AutoSetRaise(Noon)
    \/ Shutdown("u1")
    \/ ShutdownPollingAwaited("u1")
    \/ ShutdownScenarioAwaited("u1")
    \/ ShutdownDisconnectReturn("u1")
    \/ TaskCancelled("poll")
    \/ TaskCancelled("auto")

\* The same as ENABLED <<PollCycleBegins>>_vars and ENABLED <<AutoCycleBegins>>_vars:
\* a cycle can begin, up to the bound of the model, whenever the task sleeps.
PollAsleep == pc["poll"] \in {"poll_start", "poll_sleep"} /\ now < MaxNow
AutoAsleep == pc["auto"] \in {"auto_start", "auto_sleep"}

\* WF_vars(PollCycleBegins) /\ WF_vars(AutoCycleBegins), with ENABLED written
\* as the state predicates above.
LoopsWake ==
    /\ []<>(~PollAsleep) \/ []<><<PollCycleBegins>>_vars
    /\ []<>(~AutoAsleep) \/ []<><<AutoCycleBegins>>_vars

SpecLoops == InitLoops /\ [][NextLoops]_vars /\ LoopsWake

SpecLoopsWF ==
    /\ InitLoops /\ [][NextLoops]_vars
    /\ WF_vars(PollCycleBegins) /\ WF_vars(AutoCycleBegins)

(* Restarts of the two loops: start_polling and run_scenarios called while
   their task runs; d1 is polled and loaded by the polling cycle, and one
   scenario's trigger holds.  At most one
   replaced task of each loop is still to be resumed with its CancelledError. *)

Replaced == {"poll_old", "auto_old"}

InitRestart ==
    InitWith(OneActive, {[i \in {1} |-> TriggerRow("time", AllDay, TurnOn, TRUE)]},
             {DefaultRetries})

NextRestart ==
    \/ StartPolling("u1") /\ LoopEnded("poll_old")
    \/ RunScenarios("u1") /\ LoopEnded("auto_old")
    \/ PollBegin
    \/ LoadConnectReturn("poll")
    \/ LoadSleepReturn("poll")
    \/ PollGetReturn
    \/ AutoBegin(Noon)
    \/ AutoSetReturn(Noon)
    \/ TaskCancelled("poll_old")
    \/ TaskCancelled("auto_old")

SpecRestart == InitRestart /\ [][NextRestart]_vars

(* Sensor triggers against the polling loop: d1 is polled and loaded by the
   polling cycle, one active scenario with a sensor trigger of every shape *)

InitSensor ==
    InitWith(OneActive,
             {[i \in {1} |-> TriggerRow("sensor", tp, TurnOn, TRUE)] : tp \in SensorTriggers},
             {DefaultRetries})

NextSensor ==
    \/ StartPolling("u2") /\ pc["poll"] = "idle"
    \/ PollBegin
    \/ LoadConnectReturn("poll")
    \/ LoadSleepReturn("poll")
    \/ PollGetReturn
    \/ PollGetRaise
    \/ ShouldExecute("u1")
    \/ ShouldExecuteGetReturn("u1")
    \/ ShouldExecuteGetRaise("u1")

SpecSensor == InitSensor /\ [][NextSensor]_vars

(* shutdown against reconnect_device on demand: initialize loads d1, a
   reconnect may load d2 as well; no loop task is started *)

NextShutReconn ==
    \/ Startup("u1")
    \/ LoadConnectReturn("u1")
    \/ LoadSleepReturn("u1")
    \/ Shutdown("u1")
    \/ ShutdownDisconnectReturn("u1")
    \/ ReconnectDevice("u2")
    \/ ReconnectDisconnectReturn("u2")
    \/ LoadConnectReturn("u2")
    \/ LoadSleepReturn("u2")

SpecShutReconn == InitCache /\ [][NextShutReconn]_vars

(* The polling loop for ever: d1 is polled, its connects and gets fail or
   succeed and its link drops.  The event loop resumes the polling task
   whenever the sleep or the device call it awaits is over, and a device call
   returns or raises (weak fairness of the polling task's steps). *)

PollStep ==
    \/ PollBegin
    \/ PollBeginLate
    \/ LoadConnectReturn("poll")
    \/ LoadSleepReturn("poll")
    \/ PollConnectReturn
    \/ PollGetReturn
    \/ PollGetRaise

NextRecover ==
    \/ StartPolling("u1") /\ pc["poll"] = "idle"
    \/ PollBegin
    \/ PollBeginLate
    \/ LoadConnectReturn("poll")
    \/ LoadSleepReturn("poll")
    \/ PollConnectReturn
    \/ PollGetReturn
    \/ PollGetRaise
    \/ LinkDrop

\* The polling task once created is never idle again.
PollStarted == pc["poll"] # "idle"

SpecRecover == InitCache /\ [][NextRecover]_vars /\ WF_vars(PollStep)

(* The connection manager alone: initialize with every retry budget *)

InitLoad == InitWith([Dev -> PollRows], NoScenarios, 1..MaxAttempts)

NextLoad ==
    \/ Initialize("u1")
    \/ LoadConnectReturn("u1")
    \/ LoadSleepReturn("u1")
    \/ LinkDrop

SpecLoad == InitLoad /\ [][NextLoad]_vars

---------------------------------------------------------------------------
(* Properties *)

AllFalse(q) == \A i \in DOMAIN q : ~q[i]
Backoffs(k) == [i \in 1..k |-> Pow2(i)]
LoadEnded == ev.load.op = "load"

\* C1: a load whose connect calls fail k < n times and then succeed makes
\* exactly k+1 connect calls, sleeps 2^1, ..., 2^k in that order, one sleep after
\* each failure, stores the handle under the device id and returns it.
C1_LoadSucceedsAfterBackoff ==
    LET e == ev.load
        k == Len(e.outcomes) - 1
    IN  (LoadEnded /\ e.outcomes # <<>> /\ e.outcomes[Len(e.outcomes)])
        => /\ k < e.n
           /\ AllFalse(SubSeq(e.outcomes, 1, k))
           /\ e.connects = k + 1
           /\ e.sleeps = Backoffs(k)
           /\ e.ret = e.h /\ e.ret # NoHandle
           /\ devices[e.d] = e.h

C1_Witness ==
    /\ LoadEnded /\ ev.load.ret # NoHandle
    /\ ev.load.outcomes = <<FALSE, FALSE, TRUE>>

\* C2: a load all of whose connect calls fail makes exactly n connect calls,
\* sleeps 2^1, ..., 2^(n-1) between them, does not sleep after the n-th failure
\* and returns None.
C2_LoadFailsAfterBudget ==
    LET e == ev.load IN
    (LoadEnded /\ AllFalse(e.outcomes))
        => /\ Len(e.outcomes) = e.n
           /\ e.connects = e.n
           /\ e.sleeps = Backoffs(e.n - 1)
           /\ e.ret = NoHandle

C2_Witness ==
    /\ LoadEnded /\ ev.load.ret = NoHandle
    /\ ev.load.n = 3 /\ ev.load.sleeps = <<2, 4>>

\* C3: whenever load returns None the device id is absent from the connected
\* map, whatever the map held for it before the call.
C3_FailedLoadLeavesIdAbsent ==
    (LoadEnded /\ ev.load.ret = NoHandle) => devices[ev.load.d] = NoHandle

SetterRejects(e) ==
    \/ e.op = "set_device_state" /\ e.arg \notin {"on", "off"}
    \/ e.op = "set_fan_speed" /\ e.arg \notin 0..6
    \/ e.op = "set_heater_temp" /\ e.arg \notin 10..30

SetterBoundary(e) ==
    \/ e.op = "set_fan_speed" /\ e.arg \in {0, 6}
    \/ e.op = "set_heater_temp" /\ e.arg \in {10, 30}

\* C4: a setter called with a state outside {on, off}, a fan speed outside
\* [0,6] or a heater temperature outside [10,30] raises the validation error,
\* calls no set() and leaves the connected map, the status cache and the device
\* as they were, loaded or not; the boundary values 0, 6, 10 and 30 are
\* accepted and, on a loaded device, passed to the handle's set().
C4_SettersValidateFirst ==
    [][LET e == ev'.call IN
       /\ SetterRejects(e)
            => /\ e.ret.kind = "raise" /\ e.ret.exc = "ValueError"
               /\ e.ret.msg # "not loaded"
               /\ pc' = pc /\ loc' = loc
               /\ devices' = devices /\ status_cache' = status_cache
               /\ devVer' = devVer
       /\ (SetterBoundary(e) /\ devices[e.d] # NoHandle)
            => /\ e.ret.kind = "await"
               /\ pc'[e.t] = "set_set"
               /\ loc'[e.t].h = devices[e.d]
               /\ loc'[e.t].value = e.arg
               /\ loc'[e.t].prop = (IF e.op = "set_fan_speed" THEN "fan_speed"
                                                            ELSE "heater_temp")
      ]_vars

C4_Witness ==
    /\ ev.call.op = "set_fan_speed" /\ ev.call.arg = 7
    /\ ev.call.ret.kind = "raise"
    /\ devices[ev.call.d] # NoHandle
    /\ status_cache[ev.call.d].present

Cached(d) == status_cache[d].present /\ status_cache[d].error = "None"
PreWrite(d) == Cached(d) /\ status_cache[d].read.ver < written[d]

\* C5, as stated: the cache never holds a status read from the device before
\* the write of the last setter that returned True, under every interleaving.
C5_NeverPreWriteStatus == \A d \in Dev : ~PreWrite(d)

\* C5, amended: when a setter returns True the entry is absent, and a status
\* cached later predates the write only if it was stored after the setter
\* returned by a get() that was already in flight when the write completed.
C5_PreWriteOnlyFromGetInFlight ==
    /\ \A d \in Dev :
         PreWrite(d) => /\ status_cache[d].read.at = written[d]
                        /\ status_cache[d].read.lo < written[d]
    /\ (ev.call.op = "set_fan_speed returns" /\ ev.call.ret = Returns(TRUE))
         => ~status_cache[ev.call.d].present

C5_Witness == \E d \in Dev : PreWrite(d) /\ pc["u1"] = "idle" /\ pc["u2"] = "idle"

UnitOf(c, d, outcome) ==
    {i \in DOMAIN c.log : c.log[i].d = d /\ c.log[i].outcome = outcome}

\* C6: at the end of a polling cycle every device of the cycle has been dealt
\* with, and for devices A and B that had handles when it began, A's get()
\* having raised and B's having returned: the cache holds an error entry for A
\* and a non-error entry of this cycle for B, and B's handle is in the map.
C6_PollIsolatesDevices ==
    LET c == ev.cycle IN
    c.op = "cycle" =>
        /\ \A d \in c.active : \E i \in DOMAIN c.log : c.log[i].d = d
        /\ \A A \in c.had, B \in c.had :
             \A i \in UnitOf(c, A, "get failed"), j \in UnitOf(c, B, "ok") :
                /\ status_cache[A].present /\ status_cache[A].error # "None"
                /\ status_cache[B].present /\ status_cache[B].error = "None"
                /\ status_cache[B].last_updated = now
                /\ devices[B] = c.log[j].h /\ devices[B] # NoHandle

C6_Witness ==
    /\ ev.cycle.op = "cycle"
    /\ Len(ev.cycle.log) = 2
    /\ ev.cycle.log[1].outcome = "get failed" /\ ev.cycle.log[2].outcome = "ok"
    /\ ev.cycle.had = Dev

\* C7: a device whose poll failed, in the load, in the inline reconnect or in
\* get(), has an error-flagged status of this cycle in the cache and is absent
\* from the connected map.
C7_FailedPollFlagsAndDrops ==
    LET u == ev.unit IN
    (u.op = "unit" /\ u.outcome # "ok")
        => /\ status_cache[u.d].present
           /\ status_cache[u.d].error # "None"
           /\ status_cache[u.d].last_updated = now
           /\ devices[u.d] = NoHandle

WellFormed(ap) ==
    /\ "device_id" \in DOMAIN ap /\ "command" \in DOMAIN ap
    /\ ap["command"] \in {"turn_on", "turn_off", "set_speed", "set_temp", "set_mode"}

LacksCapability(ap) ==
    LET type == registry[ap["device_id"]].type IN
    \/ ap["command"] = "set_temp" /\ type \notin {TionS3, TionS4}
    \/ ap["command"] = "set_mode" /\ type # TionS4

ExecCalled(e) == e.op = "execute_scenario" /\ e.outcome = "-"

\* C8: execute_scenario of a set_temp scenario on a device without temperature
\* control (neither S3 nor S4), or of a set_mode scenario on a device without
\* mode control (not S4), returns False and no set() is called.
C8_CapabilityGate ==
    LET e == ev.call IN
    (/\ ExecCalled(e)
     /\ scenarios[e.id].present
     /\ WellFormed(scenarios[e.id].action_params)
     /\ LacksCapability(scenarios[e.id].action_params))
        => e.ret = Returns(FALSE) /\ pc[e.t] # "exec_set"

C8_Witness ==
    LET e == ev.call IN
    /\ ExecCalled(e) /\ scenarios[e.id].present
    /\ scenarios[e.id].action_params = [device_id |-> "d1", command |-> "set_mode"]
    /\ registry["d1"].type = TionS3
    /\ devices["d1"] # NoHandle
    /\ e.ret = Returns(FALSE)

ExecRefused(e) ==
    \/ ~scenarios[e.id].present
    \/ ~WellFormed(scenarios[e.id].action_params)
    \/ devices[scenarios[e.id].action_params["device_id"]] = NoHandle

\* C9: execute_scenario of a missing id, of malformed action parameters or for
\* a device without a handle returns False, calls no set() and changes
\* nothing: not the scenario, not the rule store, the connected map, the cache.
C9_InvalidScenarioChangesNothing ==
    [][LET e == ev'.call IN
       (ExecCalled(e) /\ ExecRefused(e))
         => /\ e.ret = Returns(FALSE)
            /\ pc' = pc /\ loc' = loc
            /\ scenarios' = scenarios /\ devices' = devices
            /\ status_cache' = status_cache /\ devVer' = devVer
            /\ e.scenario.present
                 => /\ e.scenario.execution_count = 0
                    /\ e.scenario.last_status = "None"
                    /\ e.scenario.last_executed = NoTime
      ]_vars

C9_Witness ==
    LET e == ev.call IN
    /\ ExecCalled(e) /\ scenarios[e.id].present
    /\ scenarios[e.id].action_params = [device_id |-> "d1", command |-> "reboot"]
    /\ devices["d1"] # NoHandle
    /\ e.ret = Returns(FALSE)

\* C10: when the set() execute_scenario called has returned or raised, the
\* scenario has last_executed = now, execution_count one more than loaded and
\* last_status the outcome, and execute_scenario returns the outcome: True
\* only if set() returned True.
C10_ExecutionTracked ==
    LET e == ev.call IN
    (e.op = "execute_scenario" /\ e.outcome # "-")
        => /\ e.scenario.last_executed = now
           /\ e.scenario.execution_count = 1
           /\ e.scenario.last_status = (IF e.outcome = "True" THEN "True" ELSE "False")
           /\ e.ret = Returns(e.outcome = "True")

C10_Witness ==
    /\ ev.call.op = "execute_scenario" /\ ev.call.outcome = "raise"
    /\ ev.call.scenario.last_status = "False"

\* C11: a scenario loaded from the rule store after an execution that reached
\* the device write has execution_count one more than before it (the rule
\* store's count having been 0), and the last_status and last_executed of that
\* execution.
C11_RuleStoreKeepsExecutions ==
    LET e == ev.call
        loaded == get_scenario(Cur, e.id)
    IN  (e.op = "execute_scenario" /\ e.outcome # "-")
            => /\ loaded.execution_count = 1
               /\ loaded.last_status = e.scenario.last_status
               /\ loaded.last_executed = e.scenario.last_executed

\* C12: when execute_scenario fails because the loaded target device lacks the
\* capability the command requires, the failure is recorded on the scenario:
\* last_status is False, on the object it ran with or as the rule store gives it.
C12_CapabilityMismatchRecorded ==
    LET e == ev.call IN
    (/\ ExecCalled(e)
     /\ scenarios[e.id].present
     /\ WellFormed(scenarios[e.id].action_params)
     /\ devices[scenarios[e.id].action_params["device_id"]] # NoHandle
     /\ LacksCapability(scenarios[e.id].action_params))
        => \/ e.scenario.last_status = "False"
           \/ get_scenario(Cur, e.id).last_status = "False"

Evaluated(e) == e.op = "should_execute" /\ e.scenario.is_active

TimeWindow(e, h1, h2) ==
    /\ Evaluated(e) /\ e.scenario.trigger_type = "time"
    /\ DOMAIN e.scenario.trigger_params = {"start", "end"}
    /\ e.scenario.trigger_params["start"] = HM(h1, 0)
    /\ e.scenario.trigger_params["end"] = HM(h2, 0)

C14_OvernightWindow ==
    \A i \in DOMAIN ev.trigs : \A h1 \in 0..23, h2 \in 0..23 :
        (TimeWindow(ev.trigs[i], h1, h2) /\ h1 > h2)
            => ev.trigs[i].ret = Returns(\/ ev.trigs[i].tod >= TimeOfDay(h1, 0, 0)
                                         \/ ev.trigs[i].tod <= TimeOfDay(h2, 0, 0))

C14_Witness ==
    \E i \in DOMAIN ev.trigs :
        /\ TimeWindow(ev.trigs[i], 22, 6)
        /\ ev.trigs[i].tod = TimeOfDay(1, 0, 0)
        /\ ev.trigs[i].ret = Returns(TRUE)

SensorTrigger(e) ==
    /\ Evaluated(e) /\ e.scenario.trigger_type = "sensor"
    /\ "device_id" \in DOMAIN e.scenario.trigger_params

Compared(e) ==
    LET tp == e.scenario.trigger_params IN
    /\ SensorTrigger(e)
    /\ e.cached.present
    /\ {"sensor", "threshold"} \subseteq DOMAIN tp
    /\ tp["sensor"] \in {"fan_speed", "heater_temp", "in_temp", "out_temp", "filter_remain"}
    /\ "comparison" \in DOMAIN tp => tp["comparison"] \in {"gt", "lt", "eq"}

\* C15: for an active sensor trigger whose device has a cached status with the
\* number v in the named field, should_execute returns v > threshold for gt
\* and when the comparison is omitted, v < threshold for lt and v = threshold
\* for eq, from the cached status.
C15_SensorComparison ==
    \A i \in DOMAIN ev.trigs :
        LET e == ev.trigs[i]
            tp == e.scenario.trigger_params
            v == e.cached[tp["sensor"]]
            c == IF "comparison" \in DOMAIN tp THEN tp["comparison"] ELSE "gt"
        IN  Compared(e)
                => /\ ~e.refreshed
                   /\ e.ret = Returns(CASE c = "gt" -> v > tp["threshold"]
                                        [] c = "lt" -> v < tp["threshold"]
                                        [] c = "eq" -> v = tp["threshold"])

C15_Witness ==
    \E i \in DOMAIN ev.trigs :
        /\ Compared(ev.trigs[i])
        /\ ev.trigs[i].cached["fan_speed"] = 4
        /\ ev.trigs[i].scenario.trigger_params = [device_id |-> "d1", sensor |-> "fan_speed",
                                                  threshold |-> 3]
        /\ ev.trigs[i].ret = Returns(TRUE)

\* C16: an active sensor trigger whose device has no cached status does not
\* fire: should_execute returns false without raising and without a get(),
\* whether or not the device has a handle.
C16_NoStatusNoFire ==
    \A i \in DOMAIN ev.trigs :
        (SensorTrigger(ev.trigs[i]) /\ ~ev.trigs[i].cached.present)
            => ev.trigs[i].ret = Returns(FALSE) /\ ~ev.trigs[i].refreshed

\* C17: should_execute returns false for a scenario whose is_active is false,
\* and whenever execute_scenario calls set() the scenario is active in the
\* rule store.
C17_InactiveNeverFires ==
    /\ \A i \in DOMAIN ev.trigs :
         ~ev.trigs[i].scenario.is_active => ev.trigs[i].ret = Returns(FALSE)
    /\ (ev.call.op = "execute_scenario" /\ ev.call.ret = Awaits)
         => scenarios[ev.call.id].is_active

\* C18: at the end of an automation cycle, however it ended, every scenario
\* of the cycle's list has been evaluated.
C18_AutomationIsolatesScenarios ==
    LET c == ev.cycle IN
    c.op = "auto_cycle"
        => \A i \in DOMAIN c.fetched : \E j \in DOMAIN c.log : c.log[j].id = c.fetched[i]

\* C20: when a scenario execution's set() has returned True the status cache
\* holds no entry for the device written, as after a setter's write.
C20_ExecutionInvalidatesCache ==
    LET e == ev.call IN
    (e.op = "execute_scenario" /\ e.outcome = "True")
        => ~status_cache[e.scenario.action_params["device_id"]].present

LoopStopped(task) == pc[task] \in {"cancelled", "done"}

\* A shutdown has returned or raised.
ShutdownEnded == ev.call.op = "shutdown"

\* While a disconnect() of shutdown is in flight both loop tasks have ended;
\* and shutdown returns without an exception, having called disconnect() once
\* on every handle the map held, with an empty map and both loops ended.
ShutdownOrderly ==
    /\ \A t \in Users : pc[t] = "sd_disconnect" => LoopEnded("poll") /\ LoopEnded("auto")
    /\ ShutdownEnded
         => /\ ev.call.ret = Returns("None")
            /\ LoopEnded("poll") /\ LoopEnded("auto")
            /\ \A d \in Dev : devices[d] = NoHandle
            /\ Len(ev.call.log) = Cardinality(ev.call.had)
            /\ {ev.call.log[i].d : i \in DOMAIN ev.call.log} = ev.call.had

\* A loop task that has been cancelled stays so and takes no step of a cycle.
CancelledLoopsRest ==
    /\ LoopStopped("poll")
         => /\ LoopStopped("poll")'
            /\ ev'.unit = NoEv /\ ev'.load = NoEv /\ ev'.cycle.op # "cycle"
    /\ LoopStopped("auto")
         => /\ LoopStopped("auto")'
            /\ ev'.trigs = <<>> /\ ev'.cycle.op # "auto_cycle"
            /\ ev'.call.op # "execute_scenario"

\* C19: shutdown cancels both loop tasks and awaits their end before it
\* disconnects anything; it calls disconnect() on every handle of the connected
\* map, lets no disconnect failure out and removes each handle whatever the
\* outcome; when it returns the map is empty, and neither loop takes a further
\* step of a cycle once cancelled.
C19_ShutdownStopsLoopsAndEmptiesMap == [](ShutdownOrderly) /\ [][CancelledLoopsRest]_vars

C19_Witness ==
    /\ ShutdownEnded
    /\ pc["poll"] = "done" /\ pc["auto"] = "done"
    /\ Len(ev.call.log) = 2
    /\ ~ev.call.log[1].ok /\ ev.call.log[2].ok

\* C21: get_device_status(d, force_refresh = False) on a device that has a
\* cache entry returns that entry as it is, awaits no device call and leaves
\* the cache, the connected map, the handles and the device as they were,
\* however old the entry is and whether or not the device has a handle.
C21_CachedReadIsPure ==
    [][LET e == ev'.call IN
       (e.op = "get_device_status" /\ ~e.arg /\ status_cache[e.d].present)
            => /\ e.ret.kind = "return" /\ e.ret.value = status_cache[e.d]
               /\ pc' = pc /\ pc'[e.t] = "idle"
               /\ status_cache' = status_cache /\ devices' = devices
               /\ hconn' = hconn /\ devVer' = devVer
      ]_vars

C21_Witness ==
    /\ ev.call.op = "get_device_status" /\ ~ev.call.arg
    /\ ev.call.ret.kind = "return"
    /\ ev.call.ret.value.last_updated < now
    /\ devices[ev.call.d] = NoHandle

\* C22: when get_device_status refreshes and get() returns a property map,
\* the call returns the status mapped from it, every key missing from the map
\* at its default (as a poll defaults it), and the cache holds that status.
C22_RefreshDefaultsMissingKeys ==
    LET e == ev.call IN
    (e.op = "get_device_status returns" /\ ev.io.op = "get" /\ ev.io.outcome = "return")
        => /\ e.ret.kind = "return"
           /\ status_cache[e.d].present
           /\ e.ret.value = status_cache[e.d]
           /\ e.ret.value =
                polled_status(e.d, ev.io.m, now, status_cache[e.d].read)

SetterNames ==
    {"set_device_state", "set_fan_speed", "set_heater_temp"} \cup DOMAIN UncheckedSetters

\* The call e needs a handle of e.d: a read that has to refresh, or a setter
\* whose argument is valid.
NeedsHandle(e) ==
    \/ e.op = "get_device_status" /\ (e.arg \/ ~status_cache[e.d].present)
    \/ e.op \in SetterNames /\ ~SetterRejects(e)

\* C23: a refreshing read or a valid setter for a device without a handle
\* raises the not-loaded error, of another kind than the validation error
\* (ValueError), returns nothing, awaits no device call and leaves the cache,
\* the map and the device as they were.
C23_NotLoadedIsDistinct ==
    [][LET e == ev'.call IN
       (e.op \in SetterNames \cup {"get_device_status"}
          /\ NeedsHandle(e) /\ devices[e.d] = NoHandle)
            => /\ e.ret.kind = "raise" /\ e.ret.msg = "not loaded"
               /\ e.ret.exc # "ValueError"
               /\ pc' = pc
               /\ status_cache' = status_cache /\ devices' = devices
               /\ devVer' = devVer
      ]_vars

\* C24: a setter with valid input on a loaded device returns what the
\* handle's set() returned: True, with the cache entry invalidated, when the
\* write succeeded, and False, with the cache as it was, when set() reported
\* failure.
C24_SetterReturnsSetOutcome ==
    [][LET io == ev'.io IN
       (io.op = "set" /\ io.outcome \in {"True", "False"})
            => /\ ev'.call.ret = Returns(io.outcome = "True")
               /\ io.outcome = "True" => ~status_cache'[io.d].present
               /\ io.outcome = "False" => status_cache' = status_cache
      ]_vars

\* C25: when the handle's set() raises, the setter returns False (nothing
\* propagates) and the status cache and the connected map are left as they
\* were: the device's entry and its handle stay.
C25_SetRaiseReturnsFalse ==
    [][LET io == ev'.io IN
       (io.op = "set" /\ io.outcome = "raise")
            => /\ ev'.call.ret = Returns(FALSE)
               /\ ev'.call.op \in {n \o " returns" : n \in SetterNames}
               /\ status_cache' = status_cache
               /\ devices' = devices /\ devices'[io.d] = io.h
               /\ pc'[ev'.call.t] = "idle"
      ]_vars

C25_Witness ==
    /\ ev.io.op = "set" /\ ev.io.outcome = "raise"
    /\ ev.call.ret = Returns(FALSE)
    /\ status_cache[ev.io.d].present
    /\ devices[ev.io.d] = ev.io.h /\ ev.io.h # NoHandle

\* d has a handle in the connected map.
InMap(d) == d \in DOMAIN devices /\ devices[d] # NoHandle

\* C26: reconnect_device(d) returns a boolean; it has called disconnect() on
\* the handle the map held for d, whether or not that raised; it returns True
\* exactly when the map then holds a connected handle for d other than the old
\* one, and when it returns False d has no handle in the map.
C26_ReconnectReplacesHandle ==
    LET e == ev.call IN
    e.op = "reconnect_device" =>
        /\ e.ret.kind = "return"
        /\ (e.old # NoHandle /\ get_device(Cur, e.d).present)
             => Len(e.log) = 1 /\ e.log[1].h = e.old
        /\ e.ret.value <=> /\ InMap(e.d)
                           /\ devices[e.d] # e.old
                           /\ devices[e.d] \in hconn
        /\ ~e.ret.value => ~InMap(e.d)

\* A load that has ended gave its caller the handle it connected, or None.
LoadGaveOptional ==
    LoadEnded => /\ ev.load.ret \in {ev.load.h, NoHandle}
                 /\ ev.load.ret = NoHandle <=> AllFalse(ev.load.outcomes)

\* A connect() of a load returned or raised: the load goes on to a backoff
\* sleep or to its next connect(), or it has ended.
LoadGoesOnOrEnds ==
    \A t \in Task :
        (pc[t] = "ld_connect" /\ pc'[t] # "ld_connect")
            => \/ pc'[t] = "ld_sleep"
               \/ ev'.load.op = "load" /\ ev'.load.t = t

\* C27: _load_device never throws past its boundary: whichever of its
\* connect() calls raise, its caller receives the handle or None.
C27_LoadNeverThrows == [](LoadGaveOptional) /\ [][LoadGoesOnOrEnds]_vars

C27_Witness ==
    /\ LoadEnded /\ ev.load.ret = NoHandle /\ ev.load.caller = "initialize"
    /\ ev.load.n = 2 /\ ev.load.outcomes = <<FALSE, FALSE>>

Loops == {"poll", "auto"}

\* A polling cycle, however it went, ends in the sleep of its interval, and an
\* automation cycle in its sleep.
CycleEndsInSleep ==
    /\ ev.cycle.op \in {"cycle", "cycle failed"} => pc["poll"] = "poll_sleep"
    /\ ev.cycle.op = "auto_cycle" => pc["auto"] = "auto_sleep"

\* A started loop task does not return, and it ends only when it was cancelled.
LoopsEndByCancel ==
    \A task \in Loops :
        /\ ~LoopEnded(task) => pc'[task] # "idle"
        /\ (pc[task] # "done" /\ pc'[task] = "done") => pc[task] = "cancelled"

\* The sleep after the k-th polling cycle ends with the next cycle begun,
\* unless the task is cancelled (k below the bound of the model).
PollRunsNextCycle ==
    \A k \in 1..(MaxNow - 1) :
        (pc["poll"] = "poll_sleep" /\ now = k)
            ~> (now > k \/ LoopStopped("poll") \/ LoopEnded("poll"))

\* The sleep after an automation cycle ends with the next cycle begun, unless
\* the task is cancelled.
AutoRunsNextCycle ==
    \A b \in {0, 1} :
        (pc["auto"] = "auto_sleep" /\ loc["auto"].loop.lap = b)
            ~> (loc["auto"].loop.lap # b \/ LoopStopped("auto") \/ LoopEnded("auto"))

\* C28: the polling loop and the automation loop end only by cancellation: a
\* cycle in which a connect, get or set, the registry's query or the rule
\* store's query failed ends in the loop's sleep like any other, and after the
\* sleep the loop begins its next cycle.
C28_LoopsSurviveFailures ==
    /\ [](CycleEndsInSleep) /\ [][LoopsEndByCancel]_vars
    /\ PollRunsNextCycle /\ AutoRunsNextCycle

\* A second polling cycle whose registry query failed, after a first in which
\* d1's get() failed, and at least two automation cycles, the last one failed.
C28_Witness ==
    /\ ev.cycle.op = "cycle failed" /\ now = 2 /\ pc["poll"] = "poll_sleep"
    /\ status_cache["d1"].present /\ status_cache["d1"].error = "get failed"
    /\ status_cache["d1"].last_updated = 1
    /\ pc["auto"] = "auto_sleep" /\ loc["auto"].loop.lap = 0

\* The awaits of a handle's connect(), get() and set() in the loops.
DeviceCalls == {"ld_connect", "poll_connect", "poll_get", "read_get", "exec_set"}

\* C29: a loop cancelled while a connect(), get() or set() of its current
\* unit of work is in flight ends only with that unit completed: the polled
\* device dealt with (its cache entry or error entry written), or the
\* scenario's execution returned with its bookkeeping.
C29_CancelLetsUnitFinish ==
    [][\A task \in Loops :
         (pc[task] = "cancelled" /\ loc[task].at \in DeviceCalls /\ pc'[task] = "done")
            => \/ ev'.unit.op = "unit" /\ ev'.unit.d = loc[task].d
               \/ ev'.call.op = "execute_scenario" /\ ev'.call.ret.kind = "return"
      ]_vars

\* C30: a task cancelled in a backoff sleep of _load_device makes no further
\* connect(): it ends there, no load result is given, the attempt made so far
\* are all there were, and the connected map is as it was, without the device.
C30_CancelledBackoffEndsLoad ==
    [][\A task \in Task :
         (pc[task] = "cancelled" /\ loc[task].at = "ld_sleep")
            => /\ pc'[task] \in {"cancelled", "done"}
               /\ pc'[task] = "done"
                    => /\ ev'.call.op = "CancelledError" /\ ev'.call.at = "ld_sleep"
                       /\ ev'.call.connects = loc[task].connects
                       /\ ev'.call.attempt = loc[task].attempt
                       /\ ev'.load = NoEv
                       /\ devices' = devices /\ devices'[loc[task].d] = NoHandle
      ]_vars

C30_Witness ==
    /\ ev.call.op = "CancelledError" /\ ev.call.at = "ld_sleep"
    /\ ev.call.connects = 2 /\ ev.call.attempt = 2
    /\ devices[ev.call.d] = NoHandle

\* A start_polling or run_scenarios that found its task running has left it
\* cancelled, and a new task created.
RestartCancels ==
    LET e == ev.call IN
    /\ (e.op = "start_polling" /\ e.was \notin {"idle", "done"})
          => pc["poll_old"] = "cancelled" /\ pc["poll"] = "poll_start"
    /\ (e.op = "run_scenarios" /\ e.was \notin {"idle", "done"})
          => pc["auto_old"] = "cancelled" /\ pc["auto"] = "auto_start"

\* A replaced task is never suspended on an await it could be resumed from:
\* the one loop at work is the task the attribute refers to.
OneLoopAtWork == \A o \in Replaced : pc[o] \in {"idle", "cancelled", "done"}

\* The only step of a replaced task is its end: no cycle begun, no device
\* call, no write to the cache or to the connected map.
ReplacedLoopsRest ==
    \A o \in Replaced :
        pc[o] = "cancelled"
            => /\ pc'[o] \in {"cancelled", "done"}
               /\ pc'[o] = "done"
                    => /\ ev'.call.op = "CancelledError" /\ ev'.call.at = loc[o].at
                       /\ status_cache' = status_cache /\ devices' = devices
                       /\ devVer' = devVer /\ now' = now
                       /\ scenarios' = scenarios
                       /\ hconn' \subseteq hconn
                       /\ \A t \in Task \ {o} : pc'[t] = pc[t] /\ loc'[t] = loc[t]
                       /\ ev'.unit = NoEv /\ ev'.cycle = NoEv /\ ev'.load = NoEv
                       /\ ev'.trigs = <<>> /\ ev'.io = NoEv

\* C31: start_polling called while a polling task runs cancels it and creates
\* a new one, and the previous task makes no further device call or cache
\* write: at most one polling loop is at work; the same for run_scenarios and
\* the automation loop; a loop cancelled in its interval sleep ends without
\* another cycle.
C31_RestartLeavesOneLoop ==
    [](RestartCancels /\ OneLoopAtWork) /\ [][ReplacedLoopsRest]_vars

\* The polling task replaced in its interval sleep has ended while its
\* successor awaits a get(), and the automation task replaced in a set() has
\* not been resumed yet.
C31_Witness ==
    /\ ev.call.op = "CancelledError" /\ ev.call.t = "poll_old"
    /\ ev.call.at = "poll_sleep"
    /\ pc["poll"] = "poll_get"
    /\ pc["auto_old"] = "cancelled" /\ loc["auto_old"].at = "exec_set"
    /\ pc["auto"] = "auto_sleep"

\* The place of scenario id in the cycle's list.
PlaceIn(fetched, id) == CHOOSE k \in DOMAIN fetched : fetched[k] = id

\* An execute_scenario call that has returned, with its tracking done if it
\* reached the device write.
ExecCompleted(x, t0) ==
    /\ x.op = "execute_scenario" /\ x.ret.kind = "return"
    /\ x.outcome # "-"
         => /\ x.scenario.execution_count = 1
            /\ x.scenario.last_status \in {"True", "False"}
            /\ x.scenario.last_executed \in 0..t0

\* At the evaluation e of the k-th scenario of a cycle the k-1 before it have
\* been dealt with, in order, and their executions are over.
EvaluatedInTurn(e) ==
    LET k == PlaceIn(e.fetched, e.scenario.id) IN
    /\ Len(e.done) = k - 1
    /\ \A j \in 1..(k - 1) :
         /\ e.done[j].id = e.fetched[j]
         /\ e.done[j].did \in {"skipped", "executed"}
         /\ e.done[j].did = "executed" => ExecCompleted(e.done[j].exec, now)

\* While the loop awaits the set() of an execution, the scenario executed is
\* the one of the current iteration and no later one has been evaluated.
ExecutesCurrent(t) ==
    LET lp == loc[t].loop IN
    (lp.on /\ pc[t] = "exec_set")
        => /\ loc[t].scenario.id = lp.scenario.id
           /\ Len(lp.log) = PlaceIn(lp.fetched, lp.scenario.id) - 1
           /\ Len(lp.queue) = Len(lp.fetched) - PlaceIn(lp.fetched, lp.scenario.id)

\* C32: within an automation cycle the execution of a scenario, its tracking
\* (last_executed, execution_count, last_status) included, is over before the
\* next scenario is evaluated: the steps of two scenarios of one loop never
\* interleave.
C32_ScenariosRunInTurn ==
    /\ ExecutesCurrent("auto")
    /\ \A i \in DOMAIN ev.trigs : ev.trigs[i].fetched # <<>> => EvaluatedInTurn(ev.trigs[i])

\* The second scenario of a cycle is evaluated in the segment in which the
\* set() of the first returned True.
C32_Witness ==
    \E i \in DOMAIN ev.trigs :
        LET e == ev.trigs[i] IN
        /\ Len(e.fetched) = 2 /\ e.scenario.id = e.fetched[2]
        /\ Len(e.done) = 1 /\ e.done[1].did = "executed"
        /\ e.done[1].exec.outcome = "True"
        /\ e.done[1].exec.scenario.execution_count = 1

\* The entry holds what the poll's except handler writes, and no reading.
HoldsDefaults(st) ==
    /\ st.state = "error" /\ st.heater_status = "error" /\ st.mode = "unknown"
    /\ st.fan_speed = 0 /\ st.heater_temp = 0
    /\ st.in_temp = 0 /\ st.out_temp = 0 /\ st.filter_remain = 0
    /\ st.sound = "off" /\ st.light = "off"
    /\ st.read = NotRead

\* C33: every status cache entry whose error is populated holds the defaults
\* in all its other fields (fan speed 0, temperatures 0, filter life 0) and no
\* reading of the device, never the data of an earlier successful read.
C33_ErrorEntryHoldsDefaults ==
    \A d \in Dev :
        (status_cache[d].present /\ status_cache[d].error # "None")
            => /\ HoldsDefaults(status_cache[d])
               /\ status_cache[d].device_id = d

\* A failed poll has put the error entry in the place of the reading of an
\* earlier successful get().
C33_Witness ==
    /\ ev.unit.op = "unit" /\ ev.unit.outcome = "get failed"
    /\ ev.prior.present /\ ev.prior.error = "None" /\ ev.prior.fan_speed = 4
    /\ ev.prior.read.ver >= 0
    /\ status_cache[ev.unit.d].error = "get failed"
    /\ status_cache[ev.unit.d].last_updated = now

\* The cache entry the evaluation e found for the trigger's device is an error
\* entry, and the trigger names a numeric field and a threshold.
OnErrorStatus(e) ==
    /\ SensorTrigger(e) /\ e.cached.present /\ e.cached.error # "None"
    /\ {"sensor", "threshold"} \subseteq DOMAIN e.scenario.trigger_params
    /\ e.scenario.trigger_params["sensor"] \in IntAttrs

\* C34: a sensor trigger whose device has an error-flagged status in the
\* cache does not fire: should_execute returns false whatever the sensor, the
\* threshold and the comparison (not true for fan_speed lt 3 from the error
\* entry's fan_speed 0).
C34_ErrorStatusNeverFires ==
    \A i \in DOMAIN ev.trigs :
        OnErrorStatus(ev.trigs[i]) => ev.trigs[i].ret = Returns(FALSE)

\* An operation that drops devices from the connected map has ended: a
\* shutdown, a reconnect_device, or a device's failed poll.
DropEnded ==
    \/ ShutdownEnded
    \/ ev.call.op = "reconnect_device"
    \/ ev.unit.op = "unit" /\ ev.unit.outcome \in {"connect failed", "get failed"}

\* C35: a device's cache entry goes with its handle: after a reconnect, a
\* shutdown or a failed poll the cache holds no non-error status for a device
\* that is absent from the connected map.
C35_DroppedDeviceHasNoStatus ==
    DropEnded => \A d \in Dev : devices[d] = NoHandle => ~Cached(d)

\* The fields of DeviceStatus.
StatusFields == IntAttrs \cup StrAttrs \cup {"last_updated", "error"}

\* The evaluation e had a status of the trigger's device: from the cache, or
\* from the get() it awaited.
StatusAtHand(e) ==
    \/ e.cached.present
    \/ /\ e.refreshed /\ ev.io.op = "get" /\ ev.io.outcome = "return"
       /\ RequiredKeys \subseteq DOMAIN ev.io.m

\* A sensor trigger with a threshold whose sensor is no field of DeviceStatus,
\* or whose comparison is none of gt, lt, eq.
UnknownSensorOrComparison(e) ==
    LET tp == e.scenario.trigger_params IN
    /\ SensorTrigger(e)
    /\ {"sensor", "threshold"} \subseteq DOMAIN tp
    /\ \/ tp["sensor"] \notin StatusFields
       \/ "comparison" \in DOMAIN tp /\ tp["comparison"] \notin {"gt", "lt", "eq"}

\* What the automation cycle has done with its scenarios so far.
CycleLog ==
    IF ev.cycle.op = "auto_cycle" THEN ev.cycle.log ELSE loc["auto"].loop.log

PollCallsGet ==
    /\ pc'["poll"] = "poll_get"
    /\ pc["poll"] # "poll_get" \/ ev'.unit.op = "unit"

\* get() is called on a handle that reports connected, or right after the
\* inline connect() of that handle returned.
GetAfterConnect ==
    PollCallsGet
        => \/ /\ pc["poll"] # "poll_connect"
              /\ loc'["poll"].h \in hconn'
              /\ ev'.io = NoEv
           \/ /\ pc["poll"] = "poll_connect"
              /\ \/ /\ ev'.io = [op |-> "connect", d |-> loc["poll"].d,
                                  h |-> loc["poll"].h, outcome |-> "return"]
                    /\ loc'["poll"].h = loc["poll"].h /\ loc'["poll"].d = loc["poll"].d
                    /\ ev'.unit = NoEv
                 \/ /\ ev'.io.op = "connect" /\ ev'.io.outcome = "raise"
                    /\ loc'["poll"].h \in hconn'

\* The polling task is resumed from its inline connect().
PollConnectEnds ==
    pc["poll"] = "poll_connect" /\ (pc'["poll"] # "poll_connect" \/ ev'.io.op = "connect")

\* The inline connect() is the only one: when it returns the get() of the
\* same handle follows, and when it raises the device's poll has failed; no
\* backoff sleep and no second attempt.
OneInlineConnect ==
    PollConnectEnds
        => /\ ev'.io.op = "connect" /\ ev'.io.h = loc["poll"].h
           /\ ev'.load = NoEv
           /\ ev'.io.outcome = "return"
                => /\ pc'["poll"] = "poll_get" /\ loc'["poll"].h = loc["poll"].h
                   /\ devices'[loc["poll"].d] = loc["poll"].h
           /\ ev'.io.outcome = "raise"
                => /\ ev'.unit = [op |-> "unit", d |-> loc["poll"].d,
                                  h |-> loc["poll"].h, outcome |-> "connect failed"]
                   /\ devices'[loc["poll"].d] = NoHandle

\* A device whose handle in the map reports disconnected when the cycle comes
\* to it gets the inline connect(), not a get() and not a load.
DisconnectedGetsConnect ==
    \A d \in Dev :
        (pc'["poll"] = "poll_connect" /\ loc'["poll"].d = d
            /\ (pc["poll"] # "poll_connect" \/ loc["poll"].d # d))
            => /\ loc'["poll"].h \notin hconn'
               /\ loc'["poll"].h # NoHandle
               /\ devices'[d] = loc'["poll"].h

\* C37: in a polling cycle a handle that reports disconnected gets exactly one
\* inline connect(), without retry or backoff sleep, before get(); when it
\* returns, get() follows on the same handle; and get() is never called on a
\* handle that reports disconnected without that connect() first.
C37_InlineReconnectBeforeGet ==
    [][GetAfterConnect /\ OneInlineConnect /\ DisconnectedGetsConnect]_vars

\* The inline connect() of a handle of the map has returned and its get() is
\* in flight.
C37_Witness ==
    /\ ev.io.op = "connect" /\ ev.io.outcome = "return"
    /\ pc["poll"] = "poll_get" /\ loc["poll"].h = ev.io.h
    /\ devices[ev.io.d] = ev.io.h /\ ev.io.h \in hconn
    /\ ev.io.d \in loc["poll"].had

\* The handle h of device d is live: its connect() succeeded and it has not
\* been disconnected.
Live(h) == h # NoHandle /\ h \in hconn

\* The step resumes from a disconnect() of handle h (one that raised is
\* counted too: the caller has done what it can).
DisconnectedNow(h) == ev'.io.op = "disconnect" /\ ev'.io.h = h

\* A live handle of the map stays in the map until it is disconnected: no step
\* overwrites it or drops it.
LiveHandleStays ==
    \A d \in Dev :
        (Live(devices[d]) /\ devices'[d] # devices[d]) => DisconnectedNow(devices[d])

\* A handle whose connect() succeeds in a load is the one the map holds.
ConnectedIsStored ==
    (ev.load.op = "load" /\ ev.load.ret # NoHandle) => devices[ev.load.d] = ev.load.ret

\* C38: however the loads of one device id interleave (the polling cycle's,
\* initialize's, reconnect_device's), a handle whose connect succeeded and
\* which has not been disconnected is the handle the map holds for the id: no
\* live handle is overwritten in the map or dropped from it.
C38_NoLiveHandleLost == [](ConnectedIsStored) /\ [][LiveHandleStays]_vars

\* shutdown has returned without an exception, and every handle the map holds
\* then is one it has called disconnect() on.
ShutdownLeavesNoHandle ==
    ShutdownEnded
        => /\ ev.call.ret = Returns("None")
           /\ \A d \in Dev :
                devices[d] # NoHandle
                    => \E i \in DOMAIN ev.call.log : ev.call.log[i].h = devices[d]

\* The handle shutdown removes from the map is the one whose disconnect() it
\* has awaited.
ShutdownRemovesOwn ==
    \A t \in Users, d \in Dev :
        (pc[t] = "sd_disconnect" /\ ev'.io.op = "disconnect"
            /\ devices[d] # NoHandle /\ devices'[d] # devices[d])
            => ev'.io.h = devices[d]

\* C39: a shutdown interleaved with a reconnect_device of a device it is
\* disconnecting returns without raising, and the map then holds no handle it
\* has not disconnected: a handle the reconnect stored is not removed without
\* its disconnect(), and an entry the reconnect removed does not make
\* shutdown's removal fail.
C39_ShutdownSurvivesReconnect ==
    [](ShutdownLeavesNoHandle) /\ [][ShutdownRemovesOwn]_vars

\* A connect() or get() of the polling task has just raised, or a connect()
\* of its load in progress has.
Failing ==
    \/ \E i \in DOMAIN loc["poll"].outcomes : ~loc["poll"].outcomes[i]
    \/ ev.load.op = "load" /\ ~AllFalse([i \in DOMAIN ev.load.outcomes |->
                                            ~ev.load.outcomes[i]])
    \/ ev.unit.op = "unit" /\ ev.unit.outcome # "ok"
    \/ ev.io.op = "connect" /\ ev.io.outcome = "raise"

\* The cache holds a non-error status of d1 and d1 has a handle in the map.
Recovered == Cached("d1") /\ InMap("d1")

\* C40: with the polling loop running and d1 active and paired, if from some
\* point on d1's connect() and get() succeed (and no command writes), then
\* from some point on the cache holds a non-error status of d1 and d1 is in
\* the connected map: a device dropped after a failed poll is loaded from
\* scratch by a later cycle and does not stay error-flagged.
C40_DroppedDeviceRecovers ==
    (<>PollStarted /\ <>[](~Failing)) => <>[]Recovered

\* A cycle has loaded d1 from scratch and its get() has put a good status in
\* the place of the error entry of an earlier cycle.
C40_Witness ==
    /\ ev.unit.op = "unit" /\ ev.unit.outcome = "ok" /\ ev.unit.d = "d1"
    /\ ev.prior.present /\ ev.prior.error # "None"
    /\ ev.cycle.op = "cycle" /\ "d1" \notin ev.cycle.had
    /\ Recovered

====
